---- MODULE Spec2Model ----
(***************************************************************************)
(* Consensus metadata (kudu/consensus/consensus_meta.cc): the in-memory    *)
(* ConsensusMetadata object, its packed (role, term) cache and the         *)
(* metadata file it is flushed to and loaded from.                         *)
(* Rowset index (tablet/rowset_tree.cc, tablet/tablet.h): the RowSetTree   *)
(* of a tablet, its queries, and its replacement under component_lock_.    *)
(***************************************************************************)
EXTENDS Integers, Sequences, FiniteSets, TLC

(***************************************************************************)
(* 64-bit words.  A uint64_t / int64_t is the tuple of its four 16-bit     *)
(* limbs, least significant first, so that masks, shifts and the           *)
(* two's-complement reading of a term keep their full width.               *)
(***************************************************************************)
WordBits == 64

LimbBits == WordBits \div 4

LimbBase == 2 ^ LimbBits

LimbPos == 1 .. (WordBits \div LimbBits)

\* limb i of w, zero outside the word
LimbAt(w, i) == IF i \in LimbPos THEN w[i] ELSE 0

\* the word of a number below 2^31
FromNat(n) == [i \in LimbPos |-> IF i = 1 THEN n % LimbBase
                                 ELSE IF i = 2 THEN n \div LimbBase ELSE 0]

\* value of a word known to fit in 31 bits (used for the 3-bit role field)
ToNat(w) == w[1] + LimbBase * w[2]

RECURSIVE LimbAnd(_, _)
LimbAnd(a, b) ==
    IF a = 0 \/ b = 0 THEN 0
    ELSE (a % 2) * (b % 2) + 2 * LimbAnd(a \div 2, b \div 2)

RECURSIVE LimbOr(_, _)
LimbOr(a, b) ==
    IF a = 0 THEN b
    ELSE IF b = 0 THEN a
    ELSE (IF a % 2 = 1 \/ b % 2 = 1 THEN 1 ELSE 0) + 2 * LimbOr(a \div 2, b \div 2)

MinusOne == [i \in LimbPos |-> LimbBase - 1]

\* w << k and w >> k (logical), 0 <= k < 64
Shl(w, k) ==
    [i \in LimbPos |->
        ((LimbAt(w, i - (k \div LimbBits)) * (2 ^ (k % LimbBits))) % LimbBase)
        + (LimbAt(w, i - (k \div LimbBits) - 1) \div (2 ^ (LimbBits - (k % LimbBits))))]

Shr(w, k) ==
    [i \in LimbPos |->
        (LimbAt(w, i + (k \div LimbBits)) \div (2 ^ (k % LimbBits)))
        + ((LimbAt(w, i + (k \div LimbBits) + 1) % (2 ^ (k % LimbBits)))
           * (2 ^ (LimbBits - (k % LimbBits))))]

BitAnd(a, b) == [i \in LimbPos |-> LimbAnd(a[i], b[i])]

BitOr(a, b) == [i \in LimbPos |-> LimbOr(a[i], b[i])]

BitNot(a) == [i \in LimbPos |-> LimbBase - 1 - a[i]]

ZeroWord == FromNat(0)

\* unsigned comparison a > b
UGt(a, b) ==
    \E i \in LimbPos :
        /\ a[i] > b[i]
        /\ \A j \in LimbPos : j > i => a[j] = b[j]

\* the sign bit of an int64_t
Negative(a) == a[WordBits \div LimbBits] >= LimbBase \div 2

\* signed (int64_t) comparison a > b
Int64Gt(a, b) ==
    IF Negative(a) # Negative(b) THEN Negative(b) ELSE UGt(a, b)

Int64Ge(a, b) == a = b \/ Int64Gt(a, b)

(***************************************************************************)
(* Packed role and term, consensus_meta.cc:63-121.                         *)
(***************************************************************************)
kPackedRoleBits == 3

kPackedTermBits == WordBits - kPackedRoleBits

kUnknownRolePacked == FromNat((2 ^ kPackedRoleBits) - 1)

kRoleMask == Shl(kUnknownRolePacked, kPackedTermBits)

kTermMask == BitNot(kRoleMask)

\* RaftPeerPB::Role values (metadata.proto)
FOLLOWER == 0

LEADER == 1

LEARNER == 2

NON_PARTICIPANT == 3

UNKNOWN_ROLE == 999

Roles == {FOLLOWER, LEADER, LEARNER, NON_PARTICIPANT, UNKNOWN_ROLE}

\* mutant: the role is shifted by the width of the role field
PackRoleAndTerm_ShiftsByRoleBits(role, term) ==
    LET t == IF BitAnd(term, kRoleMask) # ZeroWord THEN kTermMask ELSE term
        r == IF role = UNKNOWN_ROLE THEN kUnknownRolePacked ELSE FromNat(role)
    IN  BitOr(Shl(r, kPackedRoleBits), t)

\* mutant: a term too wide for the term field is packed as it is
PackRoleAndTerm_NoSentinel(role, term) ==
    LET r == IF role = UNKNOWN_ROLE THEN kUnknownRolePacked ELSE FromNat(role)
    IN  BitOr(Shl(r, kPackedTermBits), term)

PackRoleAndTerm(role, term) ==
    LET t == IF BitAnd(term, kRoleMask) # ZeroWord THEN kTermMask ELSE term
        r == IF role = UNKNOWN_ROLE THEN kUnknownRolePacked ELSE FromNat(role)
    IN  BitOr(Shl(r, kPackedTermBits), t)

UnpackRole(role_and_term_packed) ==
    LET role == Shr(role_and_term_packed, kPackedTermBits)
    IN  IF role = kUnknownRolePacked THEN UNKNOWN_ROLE ELSE ToNat(role)

\* LOG(FATAL) on the sentinel: `fatal` tells that the call aborts the process
\* instead of returning `term`
UnpackTerm(role_and_term_packed) ==
    LET t == BitAnd(role_and_term_packed, kTermMask)
    IN  [fatal |-> (t = kTermMask), term |-> t]

(***************************************************************************)
(* Raft configurations and the quorum helpers (quorum_util).               *)
(***************************************************************************)
Peer(uuid, type) == [permanent_uuid |-> uuid, member_type |-> type]

Config(peers, idx) == [peers |-> peers, opid_index |-> idx]

\* a default-constructed / Clear()ed RaftConfigPB
EmptyConfig == Config(<< >>, -1)

IsRaftConfigMember(uuid, config) ==
    \E i \in DOMAIN config.peers : config.peers[i].permanent_uuid = uuid

IsRaftConfigVoter(uuid, config) ==
    \E i \in DOMAIN config.peers :
        /\ config.peers[i].permanent_uuid = uuid
        /\ config.peers[i].member_type = "VOTER"

CountVoters(config) ==
    Cardinality({i \in DOMAIN config.peers : config.peers[i].member_type = "VOTER"})

\* Raft membership rules: some peer, a committed index, distinct non-empty
\* uuids, known member types, at least one voter.
VerifyRaftConfig(config) ==
    /\ Len(config.peers) > 0
    /\ config.opid_index >= 0
    /\ \A i \in DOMAIN config.peers :
          /\ config.peers[i].permanent_uuid # ""
          /\ config.peers[i].member_type \in {"VOTER", "NON_VOTER"}
    /\ \A i, j \in DOMAIN config.peers :
          config.peers[i].permanent_uuid = config.peers[j].permanent_uuid => i = j
    /\ CountVoters(config) > 0

GetConsensusRole(peer_uuid, leader_uuid, config) ==
    IF IsRaftConfigVoter(peer_uuid, config)
    THEN IF peer_uuid = leader_uuid THEN LEADER
         ELSE IF leader_uuid = "" \/ IsRaftConfigVoter(leader_uuid, config)
              THEN FOLLOWER
              ELSE UNKNOWN_ROLE
    ELSE IF IsRaftConfigMember(peer_uuid, config) THEN LEARNER
         ELSE NON_PARTICIPANT

(***************************************************************************)
(* The ConsensusMetadata object.  Every method is an operator from the     *)
(* object (a record of its members) to the object after the call.          *)
(***************************************************************************)
\* a default-constructed ConsensusMetadataPB
EmptyPB ==
    [has_committed_config |-> FALSE, committed_config |-> EmptyConfig,
     has_current_term |-> FALSE, current_term |-> ZeroWord,
     has_voted_for |-> FALSE, voted_for |-> ""]

current_term(cm) == cm.pb.current_term

has_voted_for(cm) == cm.pb.has_voted_for

voted_for(cm) == cm.pb.voted_for

has_pending_config(cm) == cm.has_pending_config

leader_uuid(cm) == cm.leader_uuid

active_role(cm) == cm.active_role

GetConfig(cm, type) ==
    CASE type = "ACTIVE_CONFIG" ->
            IF cm.has_pending_config THEN cm.pending_config
            ELSE cm.pb.committed_config
      [] type = "COMMITTED_CONFIG" -> cm.pb.committed_config
      \* CHECK(has_pending_config_): no value without a pending config
      [] type = "PENDING_CONFIG" /\ cm.has_pending_config -> cm.pending_config

CommittedConfig(cm) == GetConfig(cm, "COMMITTED_CONFIG")

ActiveConfig(cm) == GetConfig(cm, "ACTIVE_CONFIG")

UpdateRoleAndTermCache(cm) ==
    [cm EXCEPT !.role_and_term_cache =
        PackRoleAndTerm(cm.active_role,
                        IF cm.pb.has_current_term THEN current_term(cm)
                        ELSE MinusOne)]

UpdateActiveRole(cm) ==
    UpdateRoleAndTermCache(
        [cm EXCEPT !.active_role =
            GetConsensusRole(cm.peer_uuid, cm.leader_uuid, ActiveConfig(cm))])

\* mutant: the term is set without refreshing the cache
set_current_term_StaleCache(cm, term) ==
    [cm EXCEPT !.pb.has_current_term = TRUE, !.pb.current_term = term]

set_current_term(cm, term) ==
    UpdateRoleAndTermCache(
        [cm EXCEPT !.pb.has_current_term = TRUE, !.pb.current_term = term])

clear_voted_for(cm) ==
    [cm EXCEPT !.pb.has_voted_for = FALSE, !.pb.voted_for = ""]

set_voted_for(cm, uuid) ==
    [cm EXCEPT !.pb.has_voted_for = TRUE, !.pb.voted_for = uuid]

\* mutant: the role is derived from the config just committed
set_committed_config_RoleFromCommitted(cm, config) ==
    LET cm1 == [cm EXCEPT !.pb.has_committed_config = TRUE,
                          !.pb.committed_config = config]
    IN  UpdateRoleAndTermCache(
            [cm1 EXCEPT !.active_role = GetConsensusRole(cm.peer_uuid, cm.leader_uuid, config)])

set_committed_config(cm, config) ==
    LET cm1 == [cm EXCEPT !.pb.has_committed_config = TRUE,
                          !.pb.committed_config = config]
    IN  IF ~cm1.has_pending_config THEN UpdateActiveRole(cm1) ELSE cm1

\* mutant: the pending config is emptied but still counts as present
clear_pending_config_KeepsFlag(cm) ==
    UpdateActiveRole([cm EXCEPT !.pending_config = EmptyConfig])

clear_pending_config(cm) ==
    UpdateActiveRole(
        [cm EXCEPT !.has_pending_config = FALSE, !.pending_config = EmptyConfig])

\* mutant: the role is not derived again
set_pending_config_StaleRole(cm, config) ==
    [cm EXCEPT !.has_pending_config = TRUE, !.pending_config = config]

set_pending_config(cm, config) ==
    UpdateActiveRole(
        [cm EXCEPT !.has_pending_config = TRUE, !.pending_config = config])

set_leader_uuid(cm, uuid) ==
    UpdateActiveRole([cm EXCEPT !.leader_uuid = uuid])

\* ConsensusStatePB built by ToConsensusStatePB()
ToConsensusStatePB(cm) ==
    [current_term |-> cm.pb.current_term,
     leader_uuid |-> cm.leader_uuid,
     committed_config |-> CommittedConfig(cm),
     has_pending_config |-> cm.has_pending_config,
     pending_config |-> cm.pending_config]

\* one call of a mutator, with the argument it takes
MutatorCall(op, term, uuid, config) ==
    [op |-> op, term |-> term, uuid |-> uuid, config |-> config]

ApplyCall(cm, call) ==
    CASE call.op = "set_current_term" -> set_current_term(cm, call.term)
      [] call.op = "clear_voted_for" -> clear_voted_for(cm)
      [] call.op = "set_leader_uuid" -> set_leader_uuid(cm, call.uuid)
      [] call.op = "set_committed_config" -> set_committed_config(cm, call.config)
      [] call.op = "clear_pending_config" -> clear_pending_config(cm)

RECURSIVE ApplyCalls(_, _)
ApplyCalls(cm, calls) ==
    IF calls = << >> THEN cm
    ELSE ApplyCalls(ApplyCall(cm, Head(calls)), Tail(calls))

\* mutant: the term of cstate is adopted whatever the current term
MergeCalls_AlwaysAdopt(cm, cstate) ==
    << MutatorCall("set_current_term", cstate.current_term, "", EmptyConfig),
       MutatorCall("clear_voted_for", ZeroWord, "", EmptyConfig),
       MutatorCall("set_leader_uuid", ZeroWord, "", EmptyConfig),
       MutatorCall("set_committed_config", ZeroWord, "", cstate.committed_config),
       MutatorCall("clear_pending_config", ZeroWord, "", EmptyConfig) >>

\* mutant: the leader is kept
MergeCalls_KeepsLeader(cm, cstate) ==
    (IF Int64Gt(cstate.current_term, current_term(cm))
     THEN << MutatorCall("set_current_term", cstate.current_term, "", EmptyConfig),
             MutatorCall("clear_voted_for", ZeroWord, "", EmptyConfig) >>
     ELSE << >>)
    \o << MutatorCall("set_committed_config", ZeroWord, "", cstate.committed_config),
          MutatorCall("clear_pending_config", ZeroWord, "", EmptyConfig) >>

\* mutant: the vote is cleared whatever the term of cstate
MergeCalls_AlwaysClearsVote(cm, cstate) ==
    (IF Int64Gt(cstate.current_term, current_term(cm))
     THEN << MutatorCall("set_current_term", cstate.current_term, "", EmptyConfig) >>
     ELSE << >>)
    \o << MutatorCall("clear_voted_for", ZeroWord, "", EmptyConfig),
          MutatorCall("set_leader_uuid", ZeroWord, "", EmptyConfig),
          MutatorCall("set_committed_config", ZeroWord, "", cstate.committed_config),
          MutatorCall("clear_pending_config", ZeroWord, "", EmptyConfig) >>

\* mutant: the term is adopted after the leader and the configs are done
MergeCalls_TermLast(cm, cstate) ==
    << MutatorCall("set_leader_uuid", ZeroWord, "", EmptyConfig),
       MutatorCall("set_committed_config", ZeroWord, "", cstate.committed_config),
       MutatorCall("clear_pending_config", ZeroWord, "", EmptyConfig) >>
    \o (IF Int64Gt(cstate.current_term, current_term(cm))
        THEN << MutatorCall("set_current_term", cstate.current_term, "", EmptyConfig),
                MutatorCall("clear_voted_for", ZeroWord, "", EmptyConfig) >>
        ELSE << >>)

\* the mutator calls MergeCommittedConsensusStatePB makes, in order
MergeCalls(cm, cstate) ==
    (IF Int64Gt(cstate.current_term, current_term(cm))
     THEN << MutatorCall("set_current_term", cstate.current_term, "", EmptyConfig),
             MutatorCall("clear_voted_for", ZeroWord, "", EmptyConfig) >>
     ELSE << >>)
    \o << MutatorCall("set_leader_uuid", ZeroWord, "", EmptyConfig),
          MutatorCall("set_committed_config", ZeroWord, "", cstate.committed_config),
          MutatorCall("clear_pending_config", ZeroWord, "", EmptyConfig) >>

MergeCommittedConsensusStatePB(cm, cstate) == ApplyCalls(cm, MergeCalls(cm, cstate))

PendingConfig(cm) == GetConfig(cm, "PENDING_CONFIG")

\* the pair GetRoleAndTerm makes of the word `val` it read from
\* role_and_term_cache_; `fatal` when UnpackTerm aborts
MakeRoleAndTerm(val) ==
    [fatal |-> UnpackTerm(val).fatal,
     role |-> UnpackRole(val),
     term |-> UnpackTerm(val).term]

GetRoleAndTerm(cm) == MakeRoleAndTerm(cm.role_and_term_cache)

\* the constructor
ConsensusMetadata(tablet_id, peer_uuid) ==
    UpdateRoleAndTermCache(
        [tablet_id |-> tablet_id,
         peer_uuid |-> peer_uuid,
         pb |-> EmptyPB,
         has_pending_config |-> FALSE,
         pending_config |-> EmptyConfig,
         leader_uuid |-> "",
         flush_count_for_tests |-> 0,
         active_role |-> UNKNOWN_ROLE,
         role_and_term_cache |-> ZeroWord,
         on_disk_size |-> 0])

(***************************************************************************)
(* The filesystem collaborator.  fs is the consensus-metadata directory    *)
(* and the tablet's metadata file; env is the outcome the environment      *)
(* gives each filesystem call of one operation.                            *)
(***************************************************************************)
EmptyFs == [dir_exists |-> FALSE, file_exists |-> FALSE, data |-> << >>]

\* the container holds the set fields of the message in field-number order
Serialize(pb) ==
    (IF pb.has_committed_config
     THEN << [field |-> "committed_config", value |-> pb.committed_config] >>
     ELSE << >>)
    \o (IF pb.has_current_term
        THEN << [field |-> "current_term", value |-> pb.current_term] >>
        ELSE << >>)
    \o (IF pb.has_voted_for
        THEN << [field |-> "voted_for", value |-> pb.voted_for] >>
        ELSE << >>)

ParseField(pb, f) ==
    CASE f.field = "committed_config" ->
            [pb EXCEPT !.has_committed_config = TRUE, !.committed_config = f.value]
      [] f.field = "current_term" ->
            [pb EXCEPT !.has_current_term = TRUE, !.current_term = f.value]
      [] f.field = "voted_for" ->
            [pb EXCEPT !.has_voted_for = TRUE, !.voted_for = f.value]

RECURSIVE ParseFrom(_, _, _)
ParseFrom(data, i, pb) ==
    IF i > Len(data) THEN pb ELSE ParseFrom(data, i + 1, ParseField(pb, data[i]))

Parse(data) == ParseFrom(data, 1, EmptyPB)

GetFileSize(fs) == Len(fs.data)

\* env_util::CreateDirIfMissing
CreateDirIfMissing(fs, env) ==
    IF ~env.mkdir_ok THEN [status |-> "IOError", fs |-> fs, created |-> FALSE]
    ELSE [status |-> "OK", fs |-> [fs EXCEPT !.dir_exists = TRUE],
          created |-> ~fs.dir_exists]

\* pb_util::WritePBContainerToPath: the file is replaced as a whole or not at all
WritePBContainerToPath(fs, pb, mode, env) ==
    IF mode = "NO_OVERWRITE" /\ fs.file_exists
    THEN [status |-> "AlreadyPresent", fs |-> fs]
    ELSE IF ~env.write_ok THEN [status |-> "IOError", fs |-> fs]
    ELSE [status |-> "OK",
          fs |-> [fs EXCEPT !.file_exists = TRUE, !.data = Serialize(pb)]]

\* a parsed message lacking a required field is a corrupt file
ParsedPB(pb) ==
    IF pb.has_committed_config /\ pb.has_current_term
    THEN [status |-> "OK", pb |-> pb]
    ELSE [status |-> "Corruption", pb |-> EmptyPB]

\* pb_util::ReadPBContainerFromPath
ReadPBContainerFromPath(fs, env) ==
    IF ~fs.file_exists THEN [status |-> "NotFound", pb |-> EmptyPB]
    ELSE IF ~env.read_ok THEN [status |-> "IOError", pb |-> EmptyPB]
    ELSE ParsedPB(Parse(fs.data))

\* mutant: the size read is added to the size held
UpdateOnDiskSize_Accumulates(cm, fs, env) ==
    IF ~fs.file_exists THEN [status |-> "NotFound", cm |-> cm]
    ELSE IF ~env.stat_ok THEN [status |-> "IOError", cm |-> cm]
    ELSE [status |-> "OK", cm |-> [cm EXCEPT !.on_disk_size = @ + GetFileSize(fs)]]

UpdateOnDiskSize(cm, fs, env) ==
    IF ~fs.file_exists THEN [status |-> "NotFound", cm |-> cm]
    ELSE IF ~env.stat_ok THEN [status |-> "IOError", cm |-> cm]
    ELSE [status |-> "OK", cm |-> [cm EXCEPT !.on_disk_size = GetFileSize(fs)]]

\* calls: the filesystem calls the operation made, in order, each with its outcome
Call(op, status) == [op |-> op, ok |-> (status = "OK")]

FlushResult(crashed, status, cm, fs, calls) ==
    [crashed |-> crashed, status |-> status, cm |-> cm, fs |-> fs, calls |-> calls]

\* Flush, line 325: sz is what UpdateOnDiskSize returned
FlushSized(sz, fs, calls) ==
    FlushResult(FALSE, sz.status, sz.cm, fs, Append(calls, Call("GetFileSize", sz.status)))

\* Flush, lines 310-325: wr is what WritePBContainerToPath returned
FlushWritten(cm, wr, env, calls) ==
    IF wr.status # "OK"
    THEN FlushResult(FALSE, wr.status, cm, wr.fs,
                     Append(calls, Call("WritePBContainerToPath", wr.status)))
    ELSE FlushSized(UpdateOnDiskSize(cm, wr.fs, env), wr.fs,
                    Append(calls, Call("WritePBContainerToPath", wr.status)))

\* mutant: the parent directory is not synced, the write follows at once
FlushDirChecked_NoSyncDir(cm, mk, flush_mode, env) ==
    IF mk.status # "OK"
    THEN FlushResult(FALSE, mk.status, cm, mk.fs, << Call("CreateDirIfMissing", mk.status) >>)
    ELSE FlushWritten(cm, WritePBContainerToPath(mk.fs, cm.pb, flush_mode, env), env,
                      << Call("CreateDirIfMissing", "OK") >>)

\* Flush, lines 300-324: mk is what CreateDirIfMissing returned
FlushDirChecked(cm, mk, flush_mode, env) ==
    IF mk.status # "OK"
    THEN FlushResult(FALSE, mk.status, cm, mk.fs, << Call("CreateDirIfMissing", mk.status) >>)
    ELSE IF mk.created /\ ~env.syncdir_ok
    THEN FlushResult(FALSE, "IOError", cm, mk.fs,
                     << Call("CreateDirIfMissing", "OK"), Call("SyncDir", "IOError") >>)
    ELSE FlushWritten(cm, WritePBContainerToPath(mk.fs, cm.pb, flush_mode, env), env,
                      IF mk.created
                      THEN << Call("CreateDirIfMissing", "OK"), Call("SyncDir", "OK") >>
                      ELSE << Call("CreateDirIfMissing", "OK") >>)

\* mutant: the config is written without being verified
FlushCounted_NoVerify(cm, fs, flush_mode, env) ==
    FlushDirChecked(cm, CreateDirIfMissing(fs, env), flush_mode, env)

\* Flush, lines 290-299: cm has counted this flush
FlushCounted(cm, fs, flush_mode, env) ==
    IF ~VerifyRaftConfig(cm.pb.committed_config)
    THEN FlushResult(FALSE, "InvalidConfig", cm, fs, << >>)
    ELSE FlushDirChecked(cm, CreateDirIfMissing(fs, env), flush_mode, env)

\* mutant: the flush is counted before the fault hook is evaluated
Flush_CountsBeforeFault(cm, fs, flush_mode, env) ==
    IF env.fault
    THEN FlushResult(TRUE, "Crashed", [cm EXCEPT !.flush_count_for_tests = @ + 1], fs, << >>)
    ELSE FlushCounted([cm EXCEPT !.flush_count_for_tests = @ + 1], fs, flush_mode, env)

Flush(cm, fs, flush_mode, env) ==
    IF env.fault THEN FlushResult(TRUE, "Crashed", cm, fs, << >>)
    ELSE FlushCounted([cm EXCEPT !.flush_count_for_tests = @ + 1], fs, flush_mode, env)

\* out is what *cmeta_out holds afterwards: << >> when it was not assigned
StaticResult(crashed, status, out, fs, calls) ==
    [crashed |-> crashed, status |-> status, out |-> out, fs |-> fs, calls |-> calls]

\* Create, lines 360 and 368: fl is what Flush(NO_OVERWRITE) returned
CreateFlushed(fl) ==
    IF fl.crashed \/ fl.status # "OK"
    THEN StaticResult(fl.crashed, fl.status, << >>, fl.fs, fl.calls)
    ELSE StaticResult(FALSE, "OK", << fl.cm >>, fl.fs, fl.calls)

\* mutant: the flush of Create replaces an existing file
CreateBuilt_Overwrites(cmeta, fs, create_mode, env) ==
    IF create_mode = "FLUSH_ON_CREATE"
    THEN CreateFlushed(Flush(cmeta, fs, "OVERWRITE", env))
    ELSE IF fs.file_exists
         THEN StaticResult(FALSE, "AlreadyPresent", << >>, fs, << >>)
         ELSE StaticResult(FALSE, "OK", << cmeta >>, fs, << >>)

\* Create, lines 359-369: cmeta is the object after the two setters
CreateBuilt(cmeta, fs, create_mode, env) ==
    IF create_mode = "FLUSH_ON_CREATE"
    THEN CreateFlushed(Flush(cmeta, fs, "NO_OVERWRITE", env))
    ELSE IF fs.file_exists
         THEN StaticResult(FALSE, "AlreadyPresent", << >>, fs, << >>)
         ELSE StaticResult(FALSE, "OK", << cmeta >>, fs, << >>)

\* the object of r with its term set
TermSetAfter(r, term) ==
    IF r.out = << >> THEN r
    ELSE [r EXCEPT !.out = << set_current_term(r.out[1], term) >>]

\* mutant: the term is set only after the flush
Create_SetsTermAfterFlush(fs, tablet_id, peer_uuid, config, term, create_mode, env) ==
    TermSetAfter(
        CreateBuilt(set_committed_config(ConsensusMetadata(tablet_id, peer_uuid), config),
                    fs, create_mode, env),
        term)

Create(fs, tablet_id, peer_uuid, config, term, create_mode, env) ==
    CreateBuilt(
        set_current_term(
            set_committed_config(ConsensusMetadata(tablet_id, peer_uuid), config),
            term),
        fs, create_mode, env)

\* Load, lines 382-384: sz is what UpdateOnDiskSize returned
LoadSized(sz, fs) ==
    IF sz.status # "OK" THEN StaticResult(FALSE, sz.status, << >>, fs, << >>)
    ELSE StaticResult(FALSE, "OK", << sz.cm >>, fs, << >>)

\* mutant: the role is left as the constructor set it
LoadRead_SkipsRoleUpdate(cmeta, rd, fs, env) ==
    IF rd.status # "OK" THEN StaticResult(FALSE, rd.status, << >>, fs, << >>)
    ELSE LoadSized(UpdateOnDiskSize([cmeta EXCEPT !.pb = rd.pb], fs, env), fs)

\* mutant: the message read from the file is not kept in the object
LoadRead_DropsMessage(cmeta, rd, fs, env) ==
    IF rd.status # "OK" THEN StaticResult(FALSE, rd.status, << >>, fs, << >>)
    ELSE LoadSized(UpdateOnDiskSize(UpdateActiveRole(cmeta), fs, env), fs)

\* Load, lines 377-384: rd is what ReadPBContainerFromPath returned
LoadRead(cmeta, rd, fs, env) ==
    IF rd.status # "OK" THEN StaticResult(FALSE, rd.status, << >>, fs, << >>)
    ELSE LoadSized(UpdateOnDiskSize(UpdateActiveRole([cmeta EXCEPT !.pb = rd.pb]), fs, env),
                   fs)

Load(fs, tablet_id, peer_uuid, env) ==
    LoadRead(ConsensusMetadata(tablet_id, peer_uuid), ReadPBContainerFromPath(fs, env),
             fs, env)

DeleteOnDiskData(fs, env) ==
    IF ~fs.file_exists THEN [status |-> "NotFound", fs |-> fs]
    ELSE IF ~env.delete_ok THEN [status |-> "IOError", fs |-> fs]
    ELSE [status |-> "OK", fs |-> [fs EXCEPT !.file_exists = FALSE, !.data = << >>]]

(***************************************************************************)
(* RowSetTree (tablet/rowset_tree.cc): the index of a tablet's rowsets by  *)
(* key range.  A key is a byte string, a tuple of bytes; a rowset is named *)
(* by its address, and GetBounds answers from the rowset's own memory.     *)
(***************************************************************************)
\* Slice::compare: bytewise over the common length, then the shorter first
SliceCompare(a, b) ==
    LET n == IF Len(a) < Len(b) THEN Len(a) ELSE Len(b)
        diff == {i \in 1 .. n : a[i] # b[i]}
    IN  IF diff # {}
        THEN LET i == CHOOSE j \in diff : \A k \in diff : j <= k
             IN  IF a[i] < b[i] THEN -1 ELSE 1
        ELSE IF Len(a) < Len(b) THEN -1
        ELSE IF Len(a) > Len(b) THEN 1
        ELSE 0

\* RowSetIntervalTraits
compare(a, b) == SliceCompare(a, b)

RowSetWithBounds(rowset, min_key, max_key) ==
    [rowset |-> rowset, min_key |-> min_key, max_key |-> max_key]

get_left(rs) == rs.min_key

get_right(rs) == rs.max_key

\* what GetBounds returns: the Status and the two keys
Bounds(min_key, max_key) == [status |-> "OK", min_key |-> min_key, max_key |-> max_key]

NoBounds(status) == [status |-> status, min_key |-> << >>, max_key |-> << >>]

(***************************************************************************)
(* IntervalTree<RowSetIntervalTraits>.  A node is << >> (none) or          *)
(* << [split_point, overlapping_by_asc_left, overlapping_by_desc_right,    *)
(*     left, right] >>.                                                    *)
(***************************************************************************)
\* pairs << key, item >> in ascending order of key
RECURSIVE SortPairs(_)
SortPairs(pairs) ==
    IF pairs = << >> THEN << >>
    ELSE LET sorted == SortPairs(Tail(pairs))
             x == Head(pairs)
             before == SelectSeq(sorted, LAMBDA p : compare(p[1], x[1]) < 0)
             after == SelectSeq(sorted, LAMBDA p : compare(p[1], x[1]) >= 0)
         IN  before \o << x >> \o after

Reverse(s) == [i \in 1 .. Len(s) |-> s[Len(s) + 1 - i]]

Items(pairs) == [i \in 1 .. Len(pairs) |-> pairs[i][2]]

ByAscLeft(intervals) ==
    Items(SortPairs([i \in 1 .. Len(intervals) |-> << get_left(intervals[i]), intervals[i] >>]))

ByDescRight(intervals) ==
    Reverse(Items(SortPairs([i \in 1 .. Len(intervals)
                                |-> << get_right(intervals[i]), intervals[i] >>])))

\* the median of the endpoints of the intervals
MedianEndpoint(intervals) ==
    LET n == Len(intervals)
        endpoints == [i \in 1 .. 2 * n |-> IF i <= n THEN << get_left(intervals[i]), i >>
                                             ELSE << get_right(intervals[i - n]), i >>]
    IN  SortPairs(endpoints)[n + 1][1]

NodeOf(split_point, overlapping, left, right) ==
    << [split_point |-> split_point,
        overlapping_by_asc_left |-> ByAscLeft(overlapping),
        overlapping_by_desc_right |-> ByDescRight(overlapping),
        left |-> left, right |-> right] >>

\* the intervals holding the median endpoint stay at the node, those wholly
\* below it go left and those wholly above it go right
RECURSIVE CreateNode(_)
CreateNode(intervals) ==
    IF intervals = << >> THEN << >>
    ELSE LET split_point == MedianEndpoint(intervals)
             Left(i) == compare(get_right(i), split_point) < 0
             Right(i) == compare(get_left(i), split_point) > 0
         IN  NodeOf(split_point,
                    SelectSeq(intervals, LAMBDA i : ~Left(i) /\ ~Right(i)),
                    CreateNode(SelectSeq(intervals, Left)),
                    CreateNode(SelectSeq(intervals, Right)))

\* the elements of s before the first one that fails Keep
TakeWhile(s, Keep(_)) ==
    LET stop == {i \in 1 .. Len(s) : ~Keep(s[i])}
        n == IF stop = {} THEN Len(s)
             ELSE (CHOOSE j \in stop : \A k \in stop : j <= k) - 1
    IN  SubSeq(s, 1, n)

RECURSIVE FindContainingPoint(_, _)
FindContainingPoint(node, query) ==
    IF node = << >> THEN << >>
    ELSE LET n == node[1]
             cmp == compare(query, n.split_point)
         IN  IF cmp < 0
             THEN TakeWhile(n.overlapping_by_asc_left,
                            LAMBDA i : compare(get_left(i), query) <= 0)
                  \o FindContainingPoint(n.left, query)
             ELSE IF cmp > 0
             THEN TakeWhile(n.overlapping_by_desc_right,
                            LAMBDA i : compare(get_right(i), query) >= 0)
                  \o FindContainingPoint(n.right, query)
             ELSE n.overlapping_by_asc_left

RECURSIVE FindIntersectingInterval(_, _)
FindIntersectingInterval(node, query) ==
    IF node = << >> THEN << >>
    ELSE LET n == node[1]
         IN  IF compare(get_right(query), n.split_point) < 0
             THEN TakeWhile(n.overlapping_by_asc_left,
                            LAMBDA i : compare(get_left(i), get_right(query)) <= 0)
                  \o FindIntersectingInterval(n.left, query)
             ELSE IF compare(get_left(query), n.split_point) > 0
             THEN TakeWhile(n.overlapping_by_desc_right,
                            LAMBDA i : compare(get_right(i), get_left(query)) >= 0)
                  \o FindIntersectingInterval(n.right, query)
             ELSE n.overlapping_by_asc_left
                  \o FindIntersectingInterval(n.left, query)
                  \o FindIntersectingInterval(n.right, query)

(***************************************************************************)
(* RowSetTree.                                                             *)
(***************************************************************************)
\* RowSetTree::RowSetTree
NewRowSetTree ==
    [initted_ |-> FALSE, entries_ |-> << >>, unbounded_rowsets_ |-> << >>,
     tree_ |-> << >>, all_rowsets_ |-> << >>]

\* the loop of Reset over rowsets[1 .. n]: the entries and the unbounded
\* rowsets collected, or the Status of the first GetBounds that failed
RECURSIVE ResetLoop(_, _, _)
ResetLoop(rowsets, n, bounds) ==
    IF n = 0 THEN [status |-> "OK", entries |-> << >>, unbounded |-> << >>]
    ELSE LET sofar == ResetLoop(rowsets, n - 1, bounds)
             rs == rowsets[n]
             s == bounds[rs]
         IN  IF sofar.status # "OK" THEN sofar
             ELSE IF s.status = "NotSupported"
             THEN [sofar EXCEPT !.unbounded = Append(@, rs)]
             ELSE IF s.status # "OK"
             THEN [status |-> s.status, entries |-> << >>, unbounded |-> << >>]
             ELSE [sofar EXCEPT
                      !.entries = Append(@, RowSetWithBounds(rs, s.min_key, s.max_key))]

\* mutant: all_rowsets_ is not assigned
ResetInstalled_KeepsAllRowsets(tree, rowsets, loop) ==
    [status |-> "OK",
     tree |-> [initted_ |-> TRUE,
               entries_ |-> loop.entries,
               unbounded_rowsets_ |-> loop.unbounded,
               tree_ |-> CreateNode(loop.entries),
               all_rowsets_ |-> tree.all_rowsets_]]

ResetInstalled(tree, rowsets, loop) ==
    [status |-> "OK",
     tree |-> [initted_ |-> TRUE,
               entries_ |-> loop.entries,
               unbounded_rowsets_ |-> loop.unbounded,
               tree_ |-> CreateNode(loop.entries),
               all_rowsets_ |-> rowsets]]

\* mutant: the rowsets without bounds are dropped
Reset_DropsUnbounded(tree, rowsets, bounds) ==
    IF tree.initted_ THEN [status |-> "Fatal", tree |-> tree]
    ELSE LET loop == ResetLoop(rowsets, Len(rowsets), bounds)
         IN  IF loop.status # "OK" THEN [status |-> loop.status, tree |-> tree]
             ELSE ResetInstalled(tree, rowsets, [loop EXCEPT !.unbounded = << >>])

\* mutant: a second Reset rebuilds the object
Reset_NoInitCheck(tree, rowsets, bounds) ==
    LET loop == ResetLoop(rowsets, Len(rowsets), bounds)
    IN  IF loop.status # "OK" THEN [status |-> loop.status, tree |-> tree]
        ELSE ResetInstalled(tree, rowsets, loop)

\* mutant: all_rowsets_ is assigned before the bounds are fetched
Reset_AssignsBeforeLoop(tree, rowsets, bounds) ==
    IF tree.initted_ THEN [status |-> "Fatal", tree |-> tree]
    ELSE LET loop == ResetLoop(rowsets, Len(rowsets), bounds)
         IN  IF loop.status # "OK"
             THEN [status |-> loop.status, tree |-> [tree EXCEPT !.all_rowsets_ = rowsets]]
             ELSE ResetInstalled(tree, rowsets, loop)

\* RowSetTree::Reset with the rowsets answering GetBounds from `bounds`;
\* "Fatal" is the CHECK on an object that was Reset before
Reset(tree, rowsets, bounds) ==
    IF tree.initted_ THEN [status |-> "Fatal", tree |-> tree]
    ELSE LET loop == ResetLoop(rowsets, Len(rowsets), bounds)
         IN  IF loop.status # "OK" THEN [status |-> loop.status, tree |-> tree]
             ELSE ResetInstalled(tree, rowsets, loop)

RowSetsOf(from_tree) == [i \in 1 .. Len(from_tree) |-> from_tree[i].rowset]

\* mutant: the upper bound of the query is taken for both ends
FindRowSetsIntersectingInterval_UpperOnly(tree, lower_bound, upper_bound, rowsets) ==
    rowsets \o tree.unbounded_rowsets_
            \o RowSetsOf(FindIntersectingInterval(
                   tree.tree_, RowSetWithBounds("query", upper_bound, upper_bound)))

FindRowSetsIntersectingInterval(tree, lower_bound, upper_bound, rowsets) ==
    rowsets \o tree.unbounded_rowsets_
            \o RowSetsOf(FindIntersectingInterval(
                   tree.tree_, RowSetWithBounds("query", lower_bound, upper_bound)))

\* mutant: only the interval tree is asked
FindRowSetsWithKeyInRange_TreeOnly(tree, encoded_key, rowsets) ==
    rowsets \o RowSetsOf(FindContainingPoint(tree.tree_, encoded_key))

FindRowSetsWithKeyInRange(tree, encoded_key, rowsets) ==
    rowsets \o tree.unbounded_rowsets_
            \o RowSetsOf(FindContainingPoint(tree.tree_, encoded_key))

(***************************************************************************)
(* Inputs.                                                                 *)
(***************************************************************************)
MaxTerm == 1

MaxFlushes == 2

kTabletId == "t1"

kPeerUuid == "p1"

\* 2^61 - 2, the largest term the cache can hold
kMaxPackableTerm == BitAnd(kTermMask, BitNot(FromNat(1)))

\* 2^61, the smallest term with a bit in the role field
kFirstRoleBitTerm == Shl(FromNat(1), kPackedTermBits)

SmallTerms == {FromNat(n) : n \in 0 .. MaxTerm}

\* in-range terms, the sentinel 2^61 - 1 and a term beyond it
Terms == SmallTerms \cup {kMaxPackableTerm, kTermMask, kFirstRoleBitTerm}

PackableTerm(term) ==
    /\ Int64Ge(term, ZeroWord)
    /\ Int64Ge(kMaxPackableTerm, term)

VoteUuids == {"p2"}

LeaderUuids == {"", "p1", "p2", "p3"}

\* p1 and p2 vote, p3 does not
ConfigVoter == Config(<< Peer("p1", "VOTER"), Peer("p2", "VOTER"), Peer("p3", "NON_VOTER") >>, 0)

\* p1 is a member without a vote
ConfigLearner == Config(<< Peer("p1", "NON_VOTER"), Peer("p2", "VOTER"), Peer("p3", "VOTER") >>, 1)

\* p1 is not a member
ConfigAbsent == Config(<< Peer("p2", "VOTER"), Peer("p3", "VOTER") >>, 2)

\* violates the membership rules: the same peer twice
ConfigInvalid == Config(<< Peer("p1", "VOTER"), Peer("p1", "VOTER") >>, 3)

Configs == {ConfigVoter, ConfigLearner, ConfigAbsent, ConfigInvalid}

FlushModes == {"OVERWRITE", "NO_OVERWRITE"}

Env(fault, mkdir_ok, syncdir_ok, write_ok, stat_ok, read_ok, delete_ok) ==
    [fault |-> fault, mkdir_ok |-> mkdir_ok, syncdir_ok |-> syncdir_ok,
     write_ok |-> write_ok, stat_ok |-> stat_ok, read_ok |-> read_ok,
     delete_ok |-> delete_ok]

EnvOk == Env(FALSE, TRUE, TRUE, TRUE, TRUE, TRUE, TRUE)

\* An operation returns at the first call that fails, so one failure per
\* operation covers every outcome: the fault hook fires, or one call fails.
FlushEnvs ==
    {EnvOk, [EnvOk EXCEPT !.fault = TRUE], [EnvOk EXCEPT !.mkdir_ok = FALSE],
     [EnvOk EXCEPT !.syncdir_ok = FALSE], [EnvOk EXCEPT !.write_ok = FALSE],
     [EnvOk EXCEPT !.stat_ok = FALSE]}

LoadEnvs == {EnvOk, [EnvOk EXCEPT !.read_ok = FALSE], [EnvOk EXCEPT !.stat_ok = FALSE]}

DeleteEnvs == {EnvOk, [EnvOk EXCEPT !.delete_ok = FALSE]}

(***************************************************************************)
(* State.                                                                  *)
(*   cmeta    the caller's scoped_refptr<ConsensusMetadata>: << >> (null)  *)
(*            or << object >>                                              *)
(*   fs       the filesystem                                               *)
(*   merging  the mutator calls the MergeCommittedConsensusStatePB in      *)
(*            progress on the writer thread has still to make              *)
(*   reader   a thread in GetRoleAndTerm: val is the word it read, result  *)
(*            the pair it returned; src (history) is the pair the writer   *)
(*            held when it stored that word                                *)
(* History variables, each recorded only in the specifications that name   *)
(* it in observe (elsewhere it keeps its initial value):                   *)
(*   last     the operation that ran last and the Status it returned       *)
(*            (and the argument of a MergeCommittedConsensusStatePB)       *)
(*   durable  << pb_ >> as it was at the last Flush that returned OK       *)
(*   wrote    << pb_ >> as it was at the last Flush whose file write       *)
(*            completed; both are << >> while no file exists               *)
(*   stored   the (active_role_, current_term) the writer held at the      *)
(*            store that wrote the current role_and_term_cache_            *)
(***************************************************************************)
VARIABLES cmeta, fs, merging, reader, observe, last, durable, wrote, stored

cms_vars == << cmeta, fs, merging, reader, observe, last, durable, wrote, stored >>

(***************************************************************************)
(* The tablet's rowsets (tablet/tablet.h, tablet/rowset_tree.cc):          *)
(*   rowset_bounds    what each rowset's GetBounds answers now             *)
(*   trees            the RowSetTree objects, a shared_ptr being an index  *)
(*   rowsets_         the tablet's current tree (0 outside a tablet)       *)
(*   component_lock_  the thread holding it exclusively ("" for none) and  *)
(*                    the threads holding it shared                        *)
(*   mvcc_            the number of transactions committed                 *)
(*   threads          each thread's position and locals                    *)
(* History variables:                                                      *)
(*   built    for each tree, << >> or << the rowsets and the bounds its    *)
(*            Reset was given >>                                           *)
(*   swapped  the swaps in the order they took component_lock_: their      *)
(*            arguments, the tree they found and the tree they installed   *)
(***************************************************************************)
VARIABLES rowset_bounds, trees, rowsets_, component_lock_, mvcc_, threads, built, swapped

rsd_vars == << rowset_bounds, trees, rowsets_, component_lock_, mvcc_, threads, built, swapped >>

vars == << cms_vars, rsd_vars >>

LockFree == [writer |-> "", readers |-> {}]

\* a process without a tablet
NoTablet ==
    /\ rowset_bounds = << >>
    /\ trees = << >>
    /\ rowsets_ = 0
    /\ component_lock_ = LockFree
    /\ mvcc_ = 0
    /\ threads = << >>
    /\ built = << >>
    /\ swapped = << >>

Note(what, new, old) == IF what \in observe THEN new ELSE old

\* arg: << cstate >> after a MergeCommittedConsensusStatePB(cstate), else << >>
Last(op, st) == [op |-> op, status |-> st, arg |-> << >>]

MergeLast(cstate) ==
    [Last("MergeCommittedConsensusStatePB", "OK") EXCEPT !.arg = << cstate >>]

RoleTerm(role, term) == [role |-> role, term |-> term]

HeldPair(cm) ==
    RoleTerm(cm.active_role,
             IF cm.pb.has_current_term THEN cm.pb.current_term ELSE MinusOne)

ReaderIdle ==
    [pc |-> "idle", val |-> ZeroWord, src |-> RoleTerm(FOLLOWER, ZeroWord),
     result |-> MakeRoleAndTerm(ZeroWord)]

\* a started process: no object yet, nothing on disk
InitProcess ==
    /\ cmeta = << >>
    /\ fs = EmptyFs
    /\ merging = << >>
    /\ reader = ReaderIdle
    /\ last = Last("start", "OK")
    /\ durable = << >>
    /\ wrote = << >>
    /\ stored = RoleTerm(FOLLOWER, ZeroWord)
    /\ NoTablet

WriteCompleted(calls) ==
    \E i \in DOMAIN calls : calls[i] = Call("WritePBContainerToPath", "OK")

\* the store history follows every store that changes the word
StoredAfter(old, new) ==
    IF new = << >> THEN stored
    ELSE IF old # << >> /\ old[1].role_and_term_cache = new[1].role_and_term_cache
         THEN stored
         ELSE HeldPair(new[1])

\* a mutator call on the live object; the setters share the label "set"
Mutate(what, cm) ==
    /\ cmeta # << >>
    /\ merging = << >>
    /\ cmeta' = << cm >>
    /\ last' = Note("last", what, last)
    /\ stored' = Note("stored", StoredAfter(cmeta, << cm >>), stored)
    /\ UNCHANGED << fs, merging, reader, observe, durable, wrote, rsd_vars >>

SetCurrentTerm(term) == Mutate(Last("set", "OK"), set_current_term(cmeta[1], term))

SetVotedFor(uuid) == Mutate(Last("set", "OK"), set_voted_for(cmeta[1], uuid))

ClearVotedFor == Mutate(Last("set", "OK"), clear_voted_for(cmeta[1]))

\* the record of a setter call; its name is kept only in the specifications
\* that observe "setter"
SetterLast(name) ==
    IF "setter" \in observe THEN [Last("set", "OK") EXCEPT !.arg = << name >>]
    ELSE Last("set", "OK")

SetCommittedConfig(config) ==
    Mutate(SetterLast("set_committed_config"), set_committed_config(cmeta[1], config))

SetPendingConfig(config) == Mutate(Last("set", "OK"), set_pending_config(cmeta[1], config))

ClearPendingConfig == Mutate(Last("set", "OK"), clear_pending_config(cmeta[1]))

SetLeaderUuid(uuid) == Mutate(Last("set", "OK"), set_leader_uuid(cmeta[1], uuid))

Merge(cstate) ==
    Mutate(MergeLast(cstate), MergeCommittedConsensusStatePB(cmeta[1], cstate))

\* the modes of the successful Flush calls that ran one right after the
\* other up to the operation recorded in l
FlushRun(l) ==
    IF l.op = "Flush" /\ l.status = "OK" /\ l.arg # << >> THEN l.arg[1].run ELSE << >>

\* history of a Flush in the specifications that observe "flush": its mode,
\* the filesystem calls it made, flush_count_for_tests_ when it ended and the
\* run of successful flushes it extends
FlushLast(r, flush_mode) ==
    [Last("Flush", r.status) EXCEPT
        !.arg = << [mode |-> flush_mode, calls |-> r.calls,
                    count |-> r.cm.flush_count_for_tests,
                    run |-> IF r.status = "OK" THEN Append(FlushRun(last), flush_mode)
                            ELSE << >>] >>]

\* history of a Flush in the specifications that observe "volatile": the
\* leader and the pending config the flushed object held
FlushHeld(r, cm) ==
    [Last("Flush", r.status) EXCEPT
        !.arg = << [leader_uuid |-> cm.leader_uuid,
                    has_pending_config |-> cm.has_pending_config,
                    pending_config |-> cm.pending_config] >>]

\* history of a Load in the same: what the successful Flush right before it
\* recorded, if that is what ran before it
LoadLast(r) ==
    IF "volatile" \in observe /\ last.op = "Flush" /\ last.status = "OK"
    THEN [Last("Load", r.status) EXCEPT !.arg = last.arg]
    ELSE Last("Load", r.status)

\* r is what Flush returned for the live object; a fired fault hook ends
\* the process
FlushReturned(r, flush_mode) ==
    /\ cmeta' = IF r.crashed THEN << >> ELSE << r.cm >>
    /\ fs' = r.fs
    /\ last' = IF "flush" \in observe THEN FlushLast(r, flush_mode)
               ELSE IF "volatile" \in observe THEN FlushHeld(r, cmeta[1])
               ELSE Note("last", Last("Flush", r.status), last)
    /\ durable' = Note("durable",
                       IF r.status = "OK" THEN << cmeta[1].pb >> ELSE durable, durable)
    /\ wrote' = Note("durable",
                     IF WriteCompleted(r.calls) THEN << cmeta[1].pb >> ELSE wrote, wrote)
    /\ UNCHANGED << merging, reader, observe, stored, rsd_vars >>

FlushOp(flush_mode, env) ==
    /\ cmeta # << >>
    /\ merging = << >>
    /\ FlushReturned(Flush(cmeta[1], fs, flush_mode, env), flush_mode)

\* the behaviours explored flush one object at most MaxFlushes times; Flush
\* itself has no such limit
FlushesLeft == cmeta # << >> /\ cmeta[1].flush_count_for_tests < MaxFlushes

\* the message a Create with these arguments has to put on disk
CreatedPB(config, term) ==
    [EmptyPB EXCEPT !.has_committed_config = TRUE, !.committed_config = config,
                    !.has_current_term = TRUE, !.current_term = term]

\* r is what Create returned
CreateReturned(r, config, term, create_mode) ==
    /\ cmeta' = IF r.crashed THEN << >>
                ELSE IF r.out # << >> THEN r.out ELSE cmeta
    /\ fs' = r.fs
    /\ last' = Note("last",
                    Last(IF create_mode = "FLUSH_ON_CREATE" THEN "CreateFlush"
                         ELSE "Create", r.status),
                    last)
    /\ durable' = Note("durable",
                       IF r.status = "OK" /\ create_mode = "FLUSH_ON_CREATE"
                       THEN << CreatedPB(config, term) >> ELSE durable,
                       durable)
    /\ wrote' = Note("durable",
                     IF WriteCompleted(r.calls) THEN << CreatedPB(config, term) >>
                     ELSE wrote,
                     wrote)
    /\ UNCHANGED << merging, reader, observe, stored, rsd_vars >>

CreateOp(config, term, create_mode, env) ==
    /\ merging = << >>
    /\ CreateReturned(Create(fs, kTabletId, kPeerUuid, config, term, create_mode, env),
                      config, term, create_mode)

\* r is what Load returned
LoadReturned(r) ==
    /\ cmeta' = IF r.out # << >> THEN r.out ELSE cmeta
    /\ last' = Note("last", LoadLast(r), last)
    /\ UNCHANGED << fs, merging, reader, observe, durable, wrote, stored, rsd_vars >>

LoadOp(env) ==
    /\ merging = << >>
    /\ LoadReturned(Load(fs, kTabletId, kPeerUuid, env))

\* r is what DeleteOnDiskData returned
DeleteReturned(r) ==
    /\ fs' = r.fs
    /\ last' = Note("last", Last("DeleteOnDiskData", r.status), last)
    /\ durable' = IF r.status = "OK" THEN << >> ELSE durable
    /\ wrote' = IF r.status = "OK" THEN << >> ELSE wrote
    /\ UNCHANGED << cmeta, merging, reader, observe, stored, rsd_vars >>

DeleteOp(env) == DeleteReturned(DeleteOnDiskData(fs, env))

\* the process dies: memory is lost, the filesystem stays
Crash ==
    /\ cmeta # << >>
    /\ cmeta' = << >>
    /\ last' = Note("last", Last("Crash", "Crashed"), last)
    /\ UNCHANGED << fs, merging, reader, observe, durable, wrote, stored, rsd_vars >>

(***************************************************************************)
(* Spec: the object's life on disk and in memory, one operation at a time. *)
(***************************************************************************)
\* the term of a fresh tablet and a later one
DiskTerms == {ZeroWord, FromNat(MaxTerm)}

DiskConfigs == {ConfigVoter, ConfigAbsent, ConfigInvalid}

Init == InitProcess /\ observe = {"last"}

Next ==
    \/ \E c \in DiskConfigs, t \in DiskTerms :
          \/ CreateOp(c, t, "NO_FLUSH_ON_CREATE", EnvOk)
          \/ \E e \in FlushEnvs : CreateOp(c, t, "FLUSH_ON_CREATE", e)
    \/ \E e \in LoadEnvs : LoadOp(e)
    \/ FlushesLeft /\ \E m \in FlushModes, e \in FlushEnvs : FlushOp(m, e)
    \/ \E e \in DeleteEnvs : DeleteOp(e)
    \/ Crash
    \/ \E t \in DiskTerms : SetCurrentTerm(t)
    \/ \E c \in DiskConfigs : SetCommittedConfig(c)

Spec == Init /\ [][Next]_vars

(***************************************************************************)
(* SpecPack: PackRoleAndTerm on a role and a term, then the two unpacks    *)
(* GetRoleAndTerm makes of the word.  reader.src is the input, reader.val  *)
(* the word, reader.result what was unpacked.                              *)
(***************************************************************************)
\* every power of two of the term field, the small terms, the ends of the
\* packable range and terms beyond it
PackTerms ==
    SmallTerms \cup {Shl(FromNat(1), k) : k \in 0 .. (kPackedTermBits - 1)}
               \cup {kMaxPackableTerm, kTermMask, kFirstRoleBitTerm,
                     Shl(FromNat(1), kPackedTermBits + 1), MinusOne}

InitPack ==
    /\ cmeta = << >>
    /\ fs = EmptyFs
    /\ merging = << >>
    /\ \E role \in Roles, term \in PackTerms :
          reader = [ReaderIdle EXCEPT !.src = RoleTerm(role, term)]
    /\ observe = {}
    /\ last = Last("start", "OK")
    /\ durable = << >>
    /\ wrote = << >>
    /\ stored = RoleTerm(FOLLOWER, ZeroWord)
    /\ NoTablet

\* UpdateRoleAndTermCache, line 411: the word packed from the pair
PackStep ==
    /\ reader.pc = "idle"
    /\ reader' = [reader EXCEPT !.pc = "loaded",
                                !.val = PackRoleAndTerm(reader.src.role, reader.src.term)]
    /\ UNCHANGED << cmeta, fs, merging, observe, last, durable, wrote, stored, rsd_vars >>

(***************************************************************************)
(* SpecFlush: the same operations, each Flush recorded with its mode, its  *)
(* filesystem calls and the successful flushes right before it.            *)
(***************************************************************************)
InitFlush == InitProcess /\ observe = {"last", "flush"}

SpecFlush == InitFlush /\ [][Next]_vars

(***************************************************************************)
(* SpecDurable: the same operations and the vote, recording what the       *)
(* flushes made durable instead of the last operation.                     *)
(***************************************************************************)
InitDurable == InitProcess /\ observe = {"durable"}

NextDurable ==
    \/ Next
    \/ \E u \in VoteUuids : SetVotedFor(u)
    \/ ClearVotedFor

SpecDurable == InitDurable /\ [][NextDurable]_vars

(***************************************************************************)
(* SpecVolatile: objects that are given a leader, a pending config and a   *)
(* vote, flushed and loaded again; each Flush records the leader and the   *)
(* pending config of the object it flushed.                                *)
(***************************************************************************)
VolatileConfigs == {ConfigVoter, ConfigAbsent}

VolatileLeaders == {"", "p1", "p2"}

InitVolatile == InitProcess /\ observe = {"last", "volatile"}

NextVolatile ==
    \/ \E c \in VolatileConfigs, t \in DiskTerms :
          CreateOp(c, t, "NO_FLUSH_ON_CREATE", EnvOk)
    \/ \E c \in VolatileConfigs : SetPendingConfig(c)
    \/ \E u \in VolatileLeaders : SetLeaderUuid(u)
    \/ \E u \in VoteUuids : SetVotedFor(u)
    \/ FlushesLeft /\ \E m \in FlushModes, e \in FlushEnvs : FlushOp(m, e)
    \/ \E e \in LoadEnvs : LoadOp(e)

SpecVolatile == InitVolatile /\ [][NextVolatile]_vars

(***************************************************************************)
(* SpecMem: one object obtained from Create or Load, then any mutators.    *)
(***************************************************************************)
\* a metadata file as some earlier Flush left it
FsWith(config, term, vote) ==
    [dir_exists |-> TRUE, file_exists |-> TRUE,
     data |-> Serialize([has_committed_config |-> TRUE, committed_config |-> config,
                         has_current_term |-> TRUE, current_term |-> term,
                         has_voted_for |-> vote # "", voted_for |-> vote])]

MemConfigs == {ConfigVoter, ConfigLearner, ConfigAbsent}

MemCStates == [current_term : Terms, committed_config : MemConfigs]

\* the files the loaded objects come from
MemFiles ==
    {FsWith(ConfigVoter, kFirstRoleBitTerm, ""), FsWith(ConfigLearner, FromNat(MaxTerm), "p2")}

\* the object, however it was obtained
InitMemObject ==
    /\ \/ /\ fs = EmptyFs
          /\ \E c \in MemConfigs, t \in Terms :
                cmeta = Create(fs, kTabletId, kPeerUuid, c, t, "NO_FLUSH_ON_CREATE", EnvOk).out
          /\ last = Last("Create", "OK")
       \/ /\ fs \in MemFiles
          /\ cmeta = Load(fs, kTabletId, kPeerUuid, EnvOk).out
          /\ last = Last("Load", "OK")
    /\ merging = << >>
    /\ reader = ReaderIdle
    /\ durable = << >>
    /\ wrote = << >>
    /\ stored = RoleTerm(FOLLOWER, ZeroWord)
    /\ NoTablet

InitMem == InitMemObject /\ observe = {"last"}

NextMem ==
    \/ \E t \in Terms : SetCurrentTerm(t)
    \/ \E u \in VoteUuids : SetVotedFor(u)
    \/ ClearVotedFor
    \/ \E c \in MemConfigs : SetCommittedConfig(c)
    \/ \E c \in MemConfigs : SetPendingConfig(c)
    \/ ClearPendingConfig
    \/ \E u \in LeaderUuids : SetLeaderUuid(u)
    \/ \E cs \in MemCStates : Merge(cs)

SpecMem == InitMem /\ [][NextMem]_vars

\* the same, the name of each setter call being recorded
InitSetters == InitMemObject /\ observe = {"last", "setter"}

SpecSetters == InitSetters /\ [][NextMem]_vars

(***************************************************************************)
(* SpecConc: a writer thread running mutators, MergeCommittedConsensus-    *)
(* StatePB one mutator call at a time, and a reader thread in              *)
(* GetRoleAndTerm, which takes no lock.  A reader sees the object only     *)
(* through role_and_term_cache_, which changes only in                     *)
(* UpdateRoleAndTermCache, so the steps are the mutator calls.             *)
(***************************************************************************)
ConcTerms == SmallTerms \cup {kFirstRoleBitTerm}

ConcConfigs == {ConfigVoter, ConfigAbsent}

ConcLeaders == {"", "p1"}

ConcCStates == [current_term : ConcTerms, committed_config : ConcConfigs]

\* history of a merge that began: its argument and the object it began on
MergeBeginLast(cm, cstate) ==
    [Last("MergeCommittedConsensusStatePB", "begun") EXCEPT
        !.arg = << [cstate |-> cstate, before |-> cm] >>]

\* the merge in progress, as the specifications that observe "merge" record it
MergeInProgress ==
    IF merging # << >> /\ "merge" \in observe THEN last.arg ELSE << >>

MergeBegin(cstate) ==
    /\ cmeta # << >>
    /\ merging = << >>
    /\ merging' = MergeCalls(cmeta[1], cstate)
    /\ last' = Note("merge", MergeBeginLast(cmeta[1], cstate), last)
    /\ UNCHANGED << cmeta, fs, reader, observe, durable, wrote, stored, rsd_vars >>

\* cm is the object after the next call of the merge in progress
MergeStepped(cm) ==
    /\ cmeta' = << cm >>
    /\ merging' = Tail(merging)
    /\ stored' = Note("stored", StoredAfter(cmeta, << cm >>), stored)
    /\ last' = IF Tail(merging) = << >>
               THEN Note("merge", Last("MergeCommittedConsensusStatePB", "OK"), last)
               ELSE last
    /\ UNCHANGED << fs, reader, observe, durable, wrote, rsd_vars >>

MergeStep ==
    /\ cmeta # << >>
    /\ merging # << >>
    /\ MergeStepped(ApplyCall(cmeta[1], Head(merging)))

\* mutant: the word is read in two halves, the role field at the previous
\* read and the term field now
ReaderLoad_TwoReads ==
    /\ cmeta # << >>
    /\ reader.pc \in {"idle", "done"}
    /\ reader' = [reader EXCEPT !.pc = "loaded",
                                !.val = BitOr(BitAnd(cmeta[1].role_and_term_cache, kTermMask),
                                              BitAnd(reader.val, kRoleMask)),
                                !.src = stored]
    /\ UNCHANGED << cmeta, fs, merging, observe, last, durable, wrote, stored, rsd_vars >>

\* GetRoleAndTerm, line 330: the one atomic read of the word
ReaderLoad ==
    /\ cmeta # << >>
    /\ reader.pc \in {"idle", "done"}
    /\ reader' = [reader EXCEPT !.pc = "loaded",
                                !.val = cmeta[1].role_and_term_cache,
                                !.src = stored]
    /\ UNCHANGED << cmeta, fs, merging, observe, last, durable, wrote, stored, rsd_vars >>

\* GetRoleAndTerm, line 331: unpack the word read; a fatal unpack ends the process
ReaderReturn ==
    /\ reader.pc = "loaded"
    /\ reader' = [reader EXCEPT !.pc = IF MakeRoleAndTerm(reader.val).fatal
                                       THEN "fatal" ELSE "done",
                                !.result = MakeRoleAndTerm(reader.val)]
    /\ cmeta' = IF MakeRoleAndTerm(reader.val).fatal THEN << >> ELSE cmeta
    /\ merging' = IF MakeRoleAndTerm(reader.val).fatal THEN << >> ELSE merging
    /\ UNCHANGED << fs, observe, last, durable, wrote, stored, rsd_vars >>

InitConcObject ==
    /\ fs = EmptyFs
    /\ \E c \in ConcConfigs :
          cmeta = Create(fs, kTabletId, kPeerUuid, c, ZeroWord, "NO_FLUSH_ON_CREATE", EnvOk).out
    /\ merging = << >>
    /\ reader = ReaderIdle
    /\ last = Last("start", "OK")
    /\ durable = << >>
    /\ wrote = << >>
    /\ stored = HeldPair(cmeta[1])
    /\ NoTablet

InitConc == InitConcObject /\ observe = {"stored"}

NextConc ==
    \/ \E t \in ConcTerms : SetCurrentTerm(t)
    \/ \E c \in ConcConfigs : SetCommittedConfig(c)
    \/ \E c \in ConcConfigs : SetPendingConfig(c)
    \/ ClearPendingConfig
    \/ \E u \in ConcLeaders : SetLeaderUuid(u)
    \/ \E cs \in ConcCStates : MergeBegin(cs)
    \/ MergeStep
    \/ ReaderLoad
    \/ ReaderReturn

SpecConc == InitConc /\ [][NextConc]_vars

\* the same, the merge in progress being recorded
InitMergeRace == InitConcObject /\ observe = {"stored", "merge"}

SpecMergeRace == InitMergeRace /\ [][NextConc]_vars

NextPack == PackStep \/ ReaderReturn

SpecPack == InitPack /\ [][NextPack]_vars

(***************************************************************************)
(* Threads over rowset trees.  A thread's locals: the tree it holds, the   *)
(* snapshot it captured, the arguments of the call it is in, and the       *)
(* vector its query appended to.                                           *)
(***************************************************************************)
ThreadIdle ==
    [pc |-> "idle", tree |-> 0, snap |-> << >>, old_rowsets |-> << >>,
     new_rowsets |-> << >>, rowsets |-> << >>, query |-> << >>, out |-> << >>]

\* the process after a failed CHECK
Aborted ==
    /\ threads' = [t \in DOMAIN threads |-> [ThreadIdle EXCEPT !.pc = "aborted"]]
    /\ trees' = << >>
    /\ built' = << >>
    /\ rowsets_' = 0
    /\ component_lock_' = LockFree
    /\ mvcc_' = 0
    /\ swapped' = << >>
    /\ UNCHANGED rowset_bounds

\* a process without consensus metadata
NoConsensusMetadata ==
    /\ cmeta = << >>
    /\ fs = EmptyFs
    /\ merging = << >>
    /\ reader = ReaderIdle
    /\ observe = {}
    /\ last = Last("start", "OK")
    /\ durable = << >>
    /\ wrote = << >>
    /\ stored = RoleTerm(FOLLOWER, ZeroWord)

\* thread t calls Reset(rowsets) on the tree it holds
ResetCall(t, rowsets) ==
    LET id == threads[t].tree
        r == Reset(trees[id], rowsets, rowset_bounds)
    IN  IF r.status = "Fatal" THEN Aborted
        ELSE /\ trees' = [trees EXCEPT ![id] = r.tree]
             /\ built' = IF r.status = "OK"
                         THEN [built EXCEPT ![id] = << [rowsets |-> rowsets,
                                                        bounds |-> rowset_bounds] >>]
                         ELSE built
             /\ threads' = [threads EXCEPT ![t].pc = IF r.status = "OK" THEN "ready"
                                                     ELSE "failed"]
             /\ UNCHANGED << rowset_bounds, rowsets_, component_lock_, mvcc_, swapped >>

\* thread t asks the tree it holds for the rowsets that may hold the key
PointQuery(t, encoded_key) ==
    /\ threads[t].pc = "ready"
    /\ threads' = [threads EXCEPT
          ![t].pc = "answered",
          ![t].query = << "point", encoded_key >>,
          ![t].out = FindRowSetsWithKeyInRange(trees[threads[t].tree], encoded_key, << >>)]
    /\ UNCHANGED << cms_vars, rowset_bounds, trees, rowsets_, component_lock_, mvcc_,
                    built, swapped >>

\* thread t asks the tree it holds for the rowsets that may overlap the range
RangeQuery(t, lower_bound, upper_bound) ==
    /\ threads[t].pc = "ready"
    /\ threads' = [threads EXCEPT
          ![t].pc = "answered",
          ![t].query = << "range", lower_bound, upper_bound >>,
          ![t].out = FindRowSetsIntersectingInterval(trees[threads[t].tree], lower_bound,
                                                     upper_bound, << >>)]
    /\ UNCHANGED << cms_vars, rowset_bounds, trees, rowsets_, component_lock_, mvcc_,
                    built, swapped >>

\* the caller is done with the vector
QueryReturn(t) ==
    /\ threads[t].pc = "answered"
    /\ threads' = [threads EXCEPT ![t].pc = "ready", ![t].query = << >>, ![t].out = << >>]
    /\ UNCHANGED << cms_vars, rowset_bounds, trees, rowsets_, component_lock_, mvcc_,
                    built, swapped >>

(***************************************************************************)
(* SpecTree: one RowSetTree, Reset by its owner over a vector of rowsets   *)
(* and then queried.                                                       *)
(***************************************************************************)
\* five keys in ascending order; the second and third extend the first
Keys == {<< 1 >>, << 1, 1 >>, << 1, 2 >>, << 2 >>, << 2, 1 >>}

Intervals == {i \in Keys \X Keys : SliceCompare(i[1], i[2]) <= 0}

RowSetIds == {"r1", "r2", "r3", "r4", "mrs", "bad"}

\* r1, r2 and r3 lie as given; the memory rowset has no bounds to give and
\* the bounds of "bad" cannot be read
BoundsTable(i1, i2, i3) ==
    [rs \in RowSetIds |->
        CASE rs = "r1" -> Bounds(i1[1], i1[2])
          [] rs = "r2" -> Bounds(i2[1], i2[2])
          [] rs = "r3" -> Bounds(i3[1], i3[2])
          [] rs = "r4" -> Bounds(<< 1 >>, << 1, 1 >>)
          [] rs = "mrs" -> NoBounds("NotSupported")
          [] rs = "bad" -> NoBounds("IOError")]

\* r1 = [k1, k3], r2 = [k2, k4], r3 = [k5, k5]
DefaultBounds ==
    BoundsTable(<< << 1 >>, << 1, 2 >> >>, << << 1, 1 >>, << 2 >> >>,
                << << 2, 1 >>, << 2, 1 >> >>)

TreeInputs ==
    {<< "r1", "r2", "r3", "mrs" >>, << "mrs", "r2" >>, << "mrs" >>, << >>,
     << "r1", "bad", "mrs" >>, << "bad", "r2" >>}

\* what GetBounds of "bad" returns once its bounds can be read
ReadableBounds == Bounds(<< 1 >>, << 1, 1 >>)

Members(s) == {s[i] : i \in DOMAIN s}

TreeOwners == {"c1"}

InitTree ==
    /\ NoConsensusMetadata
    /\ \E input \in TreeInputs, i1 \in Intervals, i2 \in Intervals, i3 \in Intervals :
          /\ rowset_bounds = BoundsTable(i1, i2, i3)
          /\ \A rs \in {"r1", "r2", "r3"} \ Members(input) :
                rowset_bounds[rs] = DefaultBounds[rs]
          /\ threads = [t \in TreeOwners |->
                          [ThreadIdle EXCEPT !.pc = "fresh", !.tree = 1, !.rowsets = input]]
    /\ trees = << NewRowSetTree >>
    /\ built = << << >> >>
    /\ rowsets_ = 0
    /\ component_lock_ = LockFree
    /\ mvcc_ = 0
    /\ swapped = << >>

\* the owner calls Reset, for the first time, again after a Reset that
\* returned an error, or on a tree that was Reset before, where the CHECK fails
TreeReset(t) ==
    /\ threads[t].pc \in {"fresh", "failed", "ready"}
    /\ ResetCall(t, threads[t].rowsets)
    /\ UNCHANGED cms_vars

\* the error that kept the bounds of rs from being read goes away
BoundsReadable(rs) ==
    /\ trees # << >>
    /\ rowset_bounds[rs].status \notin {"OK", "NotSupported"}
    /\ rowset_bounds' = [rowset_bounds EXCEPT ![rs] = ReadableBounds]
    /\ UNCHANGED << cms_vars, trees, rowsets_, component_lock_, mvcc_, threads, built,
                    swapped >>

NextTree ==
    \/ BoundsReadable("bad")
    \/ \E t \in TreeOwners :
        \/ TreeReset(t)
        \/ \E k \in Keys : PointQuery(t, k)
        \/ \E i \in Intervals : RangeQuery(t, i[1], i[2])
        \/ QueryReturn(t)

SpecTree == InitTree /\ [][NextTree]_vars

(***************************************************************************)
(* SpecTablet: a tablet whose readers capture the current tree and an MVCC *)
(* snapshot under component_lock_ in shared mode and then scan, and whose  *)
(* flushes and compactions call AtomicSwapRowSets.                         *)
(***************************************************************************)
MaxSwaps == 2

MaxCommits == 1

ReaderThreads == {"rd1"}

SwapperThreads == {"sw1", "sw2"}

\* the tablet opens with two disk rowsets and a memory rowset being flushed
TabletRowSets == << "r1", "r2", "mrs" >>

\* a compaction of r1 and r2 into r3, and the flush of the memory rowset to r4
SwapInputs ==
    {[old_rowsets |-> << "r1", "r2" >>, new_rowsets |-> << "r3" >>],
     [old_rowsets |-> << "mrs" >>, new_rowsets |-> << "r4" >>]}

\* the key and the range the readers scan for
ScanKeys == {<< 1 >>}

ScanRanges == {<< << 1, 2 >>, << 2 >> >>}

\* a rowset whose own bounds change after the tree was built, and what they
\* change to
DriftingRowSets == {"r1"}

DriftedBounds == Bounds(<< 2 >>, << 2, 1 >>)

\* percpu_rwlock
CanLockShared_IgnoresWriter(lock) == TRUE

CanLockShared(lock) == lock.writer = ""

CanLockExclusive_IgnoresWriter(lock) == lock.readers = {}

CanLockExclusive(lock) == lock.writer = "" /\ lock.readers = {}

\* MvccSnapshot(mvcc_); `current` and `holders` (history) are the tablet's
\* tree and the shared holders of the lock when it was taken
SnapshotNow ==
    [commits |-> mvcc_, current |-> rowsets_, holders |-> component_lock_.readers]

\* the rowsets of `s` that are not in `without`, each once
RECURSIVE Without(_, _)
Without(s, without) ==
    IF s = << >> THEN << >>
    ELSE LET rest == Without(SubSeq(s, 1, Len(s) - 1), without)
             x == s[Len(s)]
         IN  IF x \in Members(without) \/ x \in Members(rest) THEN rest
             ELSE Append(rest, x)

\* (current U new) - old
PostSwap(current, old_rowsets, new_rowsets) ==
    Without(current \o new_rowsets, old_rowsets)

InitTablet ==
    /\ NoConsensusMetadata
    /\ rowset_bounds = DefaultBounds
    /\ trees = << Reset(NewRowSetTree, TabletRowSets, DefaultBounds).tree >>
    /\ built = << << [rowsets |-> TabletRowSets, bounds |-> DefaultBounds] >> >>
    /\ rowsets_ = 1
    /\ component_lock_ = LockFree
    /\ mvcc_ = 0
    /\ threads = [t \in ReaderThreads \cup SwapperThreads |-> ThreadIdle]
    /\ swapped = << >>

SwapsBegun == Len(swapped) + Cardinality({t \in DOMAIN threads : threads[t].pc = "swap_wait"})

\* the entry of `swapped` of the swap thread t is in
SwapOf(t) == CHOOSE i \in DOMAIN swapped : swapped[i].thread = t /\ swapped[i].snap = << >>

\* AtomicSwapRowSets(old_rowsets, new_rowsets, snap_under_lock) is called
SwapCall(t, input) ==
    /\ threads[t].pc = "idle"
    /\ SwapsBegun < MaxSwaps
    /\ threads' = [threads EXCEPT ![t].pc = "swap_wait",
                                  ![t].old_rowsets = input.old_rowsets,
                                  ![t].new_rowsets = input.new_rowsets]
    /\ UNCHANGED << cms_vars, rowset_bounds, trees, rowsets_, component_lock_, mvcc_,
                    built, swapped >>

\* step 1: component_lock_ in exclusive mode
SwapLock(t) ==
    /\ threads[t].pc = "swap_wait"
    /\ CanLockExclusive(component_lock_)
    /\ component_lock_' = [component_lock_ EXCEPT !.writer = t]
    /\ threads' = [threads EXCEPT ![t].pc = "swap_locked"]
    /\ swapped' = Append(swapped, [thread |-> t,
                                   old_rowsets |-> threads[t].old_rowsets,
                                   new_rowsets |-> threads[t].new_rowsets,
                                   before |-> rowsets_, after |-> 0, snap |-> << >>])
    /\ UNCHANGED << cms_vars, rowset_bounds, trees, rowsets_, mvcc_, built >>

\* steps 2 and 3: the new set, and a new RowSetTree Reset over it
SwapBuild(t) ==
    /\ threads[t].pc = "swap_locked"
    /\ LET post_swap == PostSwap(trees[rowsets_].all_rowsets_, threads[t].old_rowsets,
                                 threads[t].new_rowsets)
           r == Reset(NewRowSetTree, post_swap, rowset_bounds)
       IN  IF r.status # "OK" THEN Aborted
           ELSE /\ trees' = Append(trees, r.tree)
                /\ built' = Append(built, << [rowsets |-> post_swap,
                                              bounds |-> rowset_bounds] >>)
                /\ threads' = [threads EXCEPT ![t].pc = "swap_built",
                                              ![t].rowsets = post_swap,
                                              ![t].tree = Len(trees) + 1]
                /\ UNCHANGED << rowset_bounds, rowsets_, component_lock_, mvcc_, swapped >>
    /\ UNCHANGED cms_vars

\* step 4: the new tree becomes the tablet's tree
SwapInstall(t) ==
    /\ threads[t].pc = "swap_built"
    /\ rowsets_' = threads[t].tree
    /\ swapped' = [swapped EXCEPT ![SwapOf(t)].after = threads[t].tree]
    /\ threads' = [threads EXCEPT ![t].pc = "swap_installed"]
    /\ UNCHANGED << cms_vars, rowset_bounds, trees, component_lock_, mvcc_, built >>

\* step 5: the snapshot, still under the lock
SwapSnapshot(t) ==
    /\ threads[t].pc = "swap_installed"
    /\ threads' = [threads EXCEPT ![t].pc = "swap_snapped", ![t].snap = << SnapshotNow >>]
    /\ UNCHANGED << cms_vars, rowset_bounds, trees, rowsets_, component_lock_, mvcc_,
                    built, swapped >>

\* step 6: the lock is released and the call returns snap_under_lock
SwapUnlock(t) ==
    /\ threads[t].pc = "swap_snapped"
    /\ component_lock_' = [component_lock_ EXCEPT
                              !.writer = IF @ = t THEN "" ELSE @]
    /\ swapped' = [swapped EXCEPT ![SwapOf(t)].snap = threads[t].snap]
    /\ threads' = [threads EXCEPT ![t] = ThreadIdle]
    /\ UNCHANGED << cms_vars, rowset_bounds, trees, rowsets_, mvcc_, built >>

\* a reader takes component_lock_ in shared mode
ReadLock(t) ==
    /\ threads[t].pc = "idle"
    /\ CanLockShared(component_lock_)
    /\ component_lock_' = [component_lock_ EXCEPT !.readers = @ \cup {t}]
    /\ threads' = [threads EXCEPT ![t].pc = "read_locked"]
    /\ UNCHANGED << cms_vars, rowset_bounds, trees, rowsets_, mvcc_, built, swapped >>

\* it copies the shared reference to the tree
ReadCopyTree(t) ==
    /\ threads[t].pc = "read_locked"
    /\ threads' = [threads EXCEPT ![t].pc = "read_copied", ![t].tree = rowsets_]
    /\ UNCHANGED << cms_vars, rowset_bounds, trees, rowsets_, component_lock_, mvcc_,
                    built, swapped >>

\* it captures the MVCC snapshot
ReadSnapshot(t) ==
    /\ threads[t].pc = "read_copied"
    /\ threads' = [threads EXCEPT ![t].pc = "read_snapped", ![t].snap = << SnapshotNow >>]
    /\ UNCHANGED << cms_vars, rowset_bounds, trees, rowsets_, component_lock_, mvcc_,
                    built, swapped >>

\* it releases the lock before scanning
ReadUnlock(t) ==
    /\ threads[t].pc = "read_snapped"
    /\ component_lock_' = [component_lock_ EXCEPT !.readers = @ \ {t}]
    /\ threads' = [threads EXCEPT ![t].pc = "ready"]
    /\ UNCHANGED << cms_vars, rowset_bounds, trees, rowsets_, mvcc_, built, swapped >>

\* the scan is over: the reader drops its reference to the tree
ReadDone(t) ==
    /\ threads[t].pc = "ready"
    /\ threads' = [threads EXCEPT ![t] = ThreadIdle]
    /\ UNCHANGED << cms_vars, rowset_bounds, trees, rowsets_, component_lock_, mvcc_,
                    built, swapped >>

\* a holder of a tree calls Reset on it again
ResetAgain(t) ==
    /\ threads[t].pc = "ready"
    /\ ResetCall(t, trees[threads[t].tree].all_rowsets_)
    /\ UNCHANGED cms_vars

\* a transaction commits; inserters and updaters hold the lock in shared mode
Commit ==
    /\ mvcc_ < MaxCommits
    /\ CanLockShared(component_lock_)
    /\ mvcc_' = mvcc_ + 1
    /\ UNCHANGED << cms_vars, rowset_bounds, trees, rowsets_, component_lock_, threads,
                    built, swapped >>

\* the rowset's own bounds change
Drift(rs) ==
    /\ trees # << >>
    /\ rowset_bounds[rs] # DriftedBounds
    /\ rowset_bounds' = [rowset_bounds EXCEPT ![rs] = DriftedBounds]
    /\ UNCHANGED << cms_vars, trees, rowsets_, component_lock_, mvcc_, threads, built,
                    swapped >>

NextTablet ==
    \/ \E t \in SwapperThreads :
          \/ \E input \in SwapInputs : SwapCall(t, input)
          \/ SwapLock(t)
          \/ SwapBuild(t)
          \/ SwapInstall(t)
          \/ SwapSnapshot(t)
          \/ SwapUnlock(t)
    \/ \E t \in ReaderThreads :
          \/ ReadLock(t)
          \/ ReadCopyTree(t)
          \/ ReadSnapshot(t)
          \/ ReadUnlock(t)
          \/ \E k \in ScanKeys : PointQuery(t, k)
          \/ \E i \in ScanRanges : RangeQuery(t, i[1], i[2])
          \/ QueryReturn(t)
          \/ ReadDone(t)
          \/ ResetAgain(t)
    \/ Commit
    \/ \E rs \in DriftingRowSets : Drift(rs)

SpecTablet == InitTablet /\ [][NextTablet]_vars

(***************************************************************************)
(* Claims.                                                                 *)
(***************************************************************************)
\* C1 as stated: after any sequence of mutators on an object obtained from
\* Create or Load, GetRoleAndTerm() returns the pair (active_role(),
\* current_term()).
C1_CacheAlwaysReadable ==
    cmeta # << >> =>
        /\ ~GetRoleAndTerm(cmeta[1]).fatal
        /\ GetRoleAndTerm(cmeta[1]).role = active_role(cmeta[1])
        /\ GetRoleAndTerm(cmeta[1]).term = current_term(cmeta[1])

\* C1 amended: GetRoleAndTerm() returns the pair (active_role(),
\* current_term()) whenever current_term() is at most 2^61 - 2, and is fatal
\* for every larger term.
C1_CacheMatchesAccessors ==
    cmeta # << >> =>
        IF PackableTerm(current_term(cmeta[1]))
        THEN /\ ~GetRoleAndTerm(cmeta[1]).fatal
             /\ GetRoleAndTerm(cmeta[1]).role = active_role(cmeta[1])
             /\ GetRoleAndTerm(cmeta[1]).term = current_term(cmeta[1])
        ELSE GetRoleAndTerm(cmeta[1]).fatal

\* C1 witness: mutators made the object a leader at term MaxTerm, and the
\* cache says so.
C1_Witness ==
    /\ cmeta # << >>
    /\ last.op \in {"set", "MergeCommittedConsensusStatePB"}
    /\ active_role(cmeta[1]) = LEADER
    /\ current_term(cmeta[1]) = FromNat(MaxTerm)
    /\ GetRoleAndTerm(cmeta[1]) =
          [fatal |-> FALSE, role |-> LEADER, term |-> FromNat(MaxTerm)]

\* C2: with a writer running mutators and a reader in GetRoleAndTerm() at any
\* interleaving point, every pair the reader returns is the pair the writer
\* held at the one store that wrote the word the reader read: never the role
\* of one store with the term of another.
C2_NoTornView ==
    reader.pc = "done" =>
        /\ reader.result.role = reader.src.role
        /\ reader.result.term = reader.src.term

\* C2 witness: the reader returned a pair while a merge was in progress and
\* after the writer had already stored another word.
C2_Witness ==
    /\ reader.pc = "done"
    /\ cmeta # << >>
    /\ merging # << >>
    /\ reader.val # cmeta[1].role_and_term_cache
    /\ reader.result.role = LEADER
    /\ reader.result.term = FromNat(MaxTerm)

\* the committed config the file holds passes VerifyRaftConfig
FileHoldsValidConfig ==
    fs.file_exists =>
        /\ ReadPBContainerFromPath(fs, EnvOk).status = "OK"
        /\ VerifyRaftConfig(ReadPBContainerFromPath(fs, EnvOk).pb.committed_config)

\* a Flush of an object whose committed config fails VerifyRaftConfig returns
\* the verification error (or dies in the fault hook) and leaves the
\* filesystem and on_disk_size as they were
InvalidFlushStep ==
    /\ (last'.op = "Flush" /\ cmeta # << >>
        /\ ~VerifyRaftConfig(cmeta[1].pb.committed_config))
       => /\ fs' = fs
          /\ \/ last'.status = "Crashed" /\ cmeta' = << >>
             \/ /\ last'.status = "InvalidConfig"
                /\ cmeta' # << >>
                /\ cmeta'[1].on_disk_size = cmeta[1].on_disk_size
    /\ last'.status = "InvalidConfig" => fs' = fs

\* C3: the metadata file, if it exists, holds a committed config that passes
\* VerifyRaftConfig; a Flush (either mode) of a config that fails it returns
\* an error, neither creates nor changes the file, and leaves on_disk_size
\* unchanged.
C3_NeverFlushInvalidConfig == [](FileHoldsValidConfig) /\ [][InvalidFlushStep]_vars

\* C3 witness: a Flush of an invalid config was refused on an object whose
\* file exists and was sized before.
C3_Witness ==
    /\ last = Last("Flush", "InvalidConfig")
    /\ fs.file_exists
    /\ cmeta # << >>
    /\ ~VerifyRaftConfig(cmeta[1].pb.committed_config)
    /\ cmeta[1].on_disk_size > 0

\* what a Load of the tablet returns now, the filesystem answering every call
LoadNow == Load(fs, kTabletId, kPeerUuid, EnvOk)

\* Load succeeds and hands out the term, the vote and the committed config of
\* the message pb
LoadReturns(pb) ==
    /\ LoadNow.status = "OK"
    /\ LoadNow.out # << >>
    /\ current_term(LoadNow.out[1]) = pb.current_term
    /\ has_voted_for(LoadNow.out[1]) = pb.has_voted_for
    /\ voted_for(LoadNow.out[1]) = pb.voted_for
    /\ CommittedConfig(LoadNow.out[1]) = pb.committed_config

\* C4 as stated: after a successful Flush (and no later DeleteOnDiskData), a
\* Load returns current_term, voted_for and committed_config exactly as they
\* were at the most recent successful Flush.
C4_LoadReturnsLastSuccessfulFlush == durable # << >> => LoadReturns(durable[1])

\* C4 amended: after a successful Flush a Load succeeds, and it returns
\* current_term, voted_for and committed_config as they were at the most
\* recent Flush that completed its file write; every successful Flush is such
\* a Flush, and so is one that wrote the file and then failed to refresh
\* on_disk_size.
C4_LoadReturnsLastWrittenFlush ==
    /\ durable # << >> => wrote # << >>
    /\ wrote # << >> => LoadReturns(wrote[1])

\* C4 witness: an object handed out by Load (never flushed, sized from the
\* file) holds the term and the vote of the last successful Flush although a
\* later write was never made.
C4_Witness ==
    /\ cmeta # << >>
    /\ cmeta[1].flush_count_for_tests = 0
    /\ cmeta[1].on_disk_size > 0
    /\ durable # << >>
    /\ durable = wrote
    /\ cmeta[1].pb = durable[1]
    /\ durable[1].has_voted_for
    /\ durable[1].current_term = FromNat(MaxTerm)

\* the step changes the live object
ObjectStep == cmeta # << >> /\ cmeta' # << >>

\* C5 as stated: over set_current_term and MergeCommittedConsensusStatePB
\* calls on one object, current_term() never becomes smaller than it was.
C5_TermNeverDecreases ==
    [][ObjectStep => Int64Ge(current_term(cmeta'[1]), current_term(cmeta[1]))]_vars

\* the step is a MergeCommittedConsensusStatePB and does not lower the term
MergeKeepsOrRaisesTerm ==
    (ObjectStep /\ last'.op = "MergeCommittedConsensusStatePB")
    => Int64Ge(current_term(cmeta'[1]), current_term(cmeta[1]))

\* set_current_term(t) makes the term t, whatever it was
SetterStoresTerm ==
    \A t \in Terms : SetCurrentTerm(t) => current_term(cmeta'[1]) = t

\* C5 amended: MergeCommittedConsensusStatePB never lowers current_term();
\* set_current_term(t) makes current_term() equal t whatever the term was, so
\* the term is non-decreasing only over calls whose arguments are.
C5_OnlySetterLowersTerm == [][MergeKeepsOrRaisesTerm /\ SetterStoresTerm]_vars

\* C5 witness: a merge has run on an object that still holds its vote, so the
\* merged term was not greater and the object's term MaxTerm was kept.
C5_Witness ==
    /\ cmeta # << >>
    /\ last.op = "MergeCommittedConsensusStatePB"
    /\ has_voted_for(cmeta[1])
    /\ current_term(cmeta[1]) = FromNat(MaxTerm)

\* C6: after every completed mutation, and after the construction done by
\* Create and Load, active_role() equals GetConsensusRole(peer_uuid,
\* leader_uuid(), ActiveConfig()) evaluated on the state after the mutation.
C6_ActiveRoleDerived ==
    cmeta # << >> =>
        active_role(cmeta[1]) =
            GetConsensusRole(cmeta[1].peer_uuid, leader_uuid(cmeta[1]), ActiveConfig(cmeta[1]))

\* C6 witness: a setter left a pending config in which p1 has no vote over a
\* committed config in which it has one, and the role is that of the pending.
C6_Witness ==
    /\ cmeta # << >>
    /\ last = Last("set", "OK")
    /\ has_pending_config(cmeta[1])
    /\ PendingConfig(cmeta[1]) = ConfigLearner
    /\ CommittedConfig(cmeta[1]) = ConfigVoter
    /\ leader_uuid(cmeta[1]) = "p2"
    /\ active_role(cmeta[1]) = LEARNER

\* what holds of the object new after MergeCommittedConsensusStatePB(other)
\* on the object old
Merged(old, new, other) ==
    /\ ~has_pending_config(new)
    /\ leader_uuid(new) = ""
    /\ CommittedConfig(new) = other.committed_config
    /\ Int64Gt(other.current_term, current_term(old))
       => /\ current_term(new) = other.current_term
          /\ ~has_voted_for(new)

\* the step is the MergeCommittedConsensusStatePB(other) recorded in last'
MergeStepMerges ==
    last'.op = "MergeCommittedConsensusStatePB"
    => /\ Merge(last'.arg[1])
       /\ Merged(cmeta[1], cmeta'[1], last'.arg[1])

\* C7: after MergeCommittedConsensusStatePB(other) from any prior state:
\* no pending config, no leader, committed config equal to other's, and if
\* other's term was greater than the previous term, that term and no vote.
C7_MergePostcondition == [][MergeStepMerges]_vars

\* C7 witness: a merge has adopted the largest packable term and the config
\* without p1, leaving no vote, no leader and no pending config.
C7_Witness ==
    /\ cmeta # << >>
    /\ last.op = "MergeCommittedConsensusStatePB"
    /\ current_term(cmeta[1]) = kMaxPackableTerm
    /\ ~has_voted_for(cmeta[1])
    /\ ~has_pending_config(cmeta[1])
    /\ leader_uuid(cmeta[1]) = ""
    /\ CommittedConfig(cmeta[1]) = ConfigAbsent
    /\ active_role(cmeta[1]) = NON_PARTICIPANT

\* C8: ActiveConfig() is the pending config when has_pending_config() and the
\* committed config otherwise; set_pending_config(P) makes ActiveConfig()
\* equal P; set_committed_config(C) followed by clear_pending_config() leaves
\* ActiveConfig() equal to CommittedConfig() equal to C.
C8_ActiveConfigSelection ==
    cmeta # << >> =>
        /\ has_pending_config(cmeta[1])
           => ActiveConfig(cmeta[1]) = cmeta[1].pending_config
        /\ ~has_pending_config(cmeta[1])
           => ActiveConfig(cmeta[1]) = cmeta[1].pb.committed_config
        /\ \A c \in MemConfigs :
              /\ ActiveConfig(set_pending_config(cmeta[1], c)) = c
              /\ ActiveConfig(clear_pending_config(set_committed_config(cmeta[1], c))) = c
              /\ CommittedConfig(clear_pending_config(set_committed_config(cmeta[1], c))) = c

\* C8 witness: a pending config differing from the committed one is active.
C8_Witness ==
    /\ cmeta # << >>
    /\ last = Last("set", "OK")
    /\ has_pending_config(cmeta[1])
    /\ cmeta[1].pending_config = ConfigAbsent
    /\ cmeta[1].pb.committed_config = ConfigLearner
    /\ ActiveConfig(cmeta[1]) = ConfigAbsent

\* a Create that finds the file in place fails, leaves the filesystem as it
\* is and assigns nothing to the caller's pointer
CreateOnExistingFile ==
    (last'.op \in {"Create", "CreateFlush"} /\ fs.file_exists)
    => /\ last'.status # "OK"
       /\ fs' = fs
       /\ \/ cmeta' = cmeta
          \/ last'.status = "Crashed" /\ cmeta' = << >>
       /\ last'.op = "Create" => last'.status = "AlreadyPresent"
       /\ last'.op = "CreateFlush"
          => last'.status \in {"AlreadyPresent", "InvalidConfig", "IOError", "Crashed"}

\* C9: when the metadata file already exists, Create fails in both modes
\* (AlreadyPresent without flush; in FLUSH_ON_CREATE mode the refused
\* non-overwriting write, or an earlier step of the flush), the file is
\* unchanged and no object is handed to the caller.
C9_CreateNeverClobbers == [][CreateOnExistingFile]_vars

\* C9 witness: a flushing Create was refused by the non-overwriting write,
\* the caller holding no object before or after.
C9_Witness ==
    /\ last = Last("CreateFlush", "AlreadyPresent")
    /\ fs.file_exists
    /\ cmeta = << >>

\* C10: after Create(..., FLUSH_ON_CREATE) of a valid config and an in-range
\* term where no file was, a Load of the same tablet and peer yields an object
\* whose current_term, voted_for presence and committed_config equal those
\* of the created object.
C10_CreateLoadRoundTrip ==
    last = Last("CreateFlush", "OK") =>
        /\ cmeta # << >>
        /\ LoadNow.status = "OK"
        /\ LoadNow.out # << >>
        /\ current_term(LoadNow.out[1]) = current_term(cmeta[1])
        /\ has_voted_for(LoadNow.out[1]) = has_voted_for(cmeta[1])
        /\ CommittedConfig(LoadNow.out[1]) = CommittedConfig(cmeta[1])

\* C10 witness: a flushing Create with term MaxTerm has succeeded.
C10_Witness ==
    /\ last = Last("CreateFlush", "OK")
    /\ cmeta # << >>
    /\ current_term(cmeta[1]) = FromNat(MaxTerm)
    /\ CommittedConfig(cmeta[1]) = ConfigVoter
    /\ cmeta[1].flush_count_for_tests = 1
    /\ cmeta[1].on_disk_size = GetFileSize(fs)

\* the step is a successful Flush(OVERWRITE) right after a successful
\* Flush(OVERWRITE), no other operation between them
SecondOverwriteFlush ==
    /\ last'.op = "Flush"
    /\ Len(FlushRun(last')) >= 2
    /\ FlushRun(last')[Len(FlushRun(last'))] = "OVERWRITE"
    /\ FlushRun(last')[Len(FlushRun(last')) - 1] = "OVERWRITE"

\* C11: two successful Flush(OVERWRITE) calls with no mutator call between
\* them leave the on-disk record and on_disk_size after the second call
\* equal to what they were after the first.
C11_FlushIdempotent ==
    [][SecondOverwriteFlush
       => /\ fs' = fs
          /\ cmeta'[1].on_disk_size = cmeta[1].on_disk_size
          /\ cmeta'[1].on_disk_size = GetFileSize(fs')]_vars

\* C11 witness: two successful Flush(OVERWRITE) calls in a row have run.
C11_Witness ==
    /\ last.op = "Flush"
    /\ FlushRun(last) = << "OVERWRITE", "OVERWRITE" >>
    /\ cmeta # << >>
    /\ cmeta[1].on_disk_size > 0

\* the filesystem calls of the Flush recorded in l, in order
FlushCallsOf(l) == IF l.op = "Flush" /\ l.arg # << >> THEN l.arg[1].calls ELSE << >>

\* the step is a Flush that got as far as the directory and found none
FlushCreatingDir ==
    /\ last'.op = "Flush"
    /\ cmeta # << >>
    /\ ~fs.dir_exists
    /\ FlushCallsOf(last') # << >>

WroteFile(calls) == \E i \in DOMAIN calls : calls[i].op = "WritePBContainerToPath"

\* the parent directory is synced before the file write starts, and a failed
\* directory creation or sync is returned with the file and on_disk_size
\* untouched
SyncBeforeWrite(calls) ==
    /\ calls[1].op = "CreateDirIfMissing"
    /\ calls[1].ok
       => /\ Len(calls) >= 2
          /\ calls[2].op = "SyncDir"
          /\ \A i \in DOMAIN calls :
                calls[i].op = "WritePBContainerToPath" => i > 2 /\ calls[2].ok
    /\ (~calls[1].ok \/ ~calls[2].ok)
       => /\ last'.status = "IOError"
          /\ ~WroteFile(calls)
          /\ fs'.file_exists = fs.file_exists
          /\ fs'.data = fs.data
          /\ cmeta' # << >>
          /\ cmeta'[1].on_disk_size = cmeta[1].on_disk_size

\* C20: in every Flush in which the consensus-metadata directory had to be
\* created, the parent directory is synced before the metadata file write
\* starts; if creating the directory or syncing the parent fails, Flush
\* returns that error without writing the file or updating on_disk_size.
C20_SyncDirBeforeWrite == [][FlushCreatingDir => SyncBeforeWrite(FlushCallsOf(last'))]_vars

\* C20 witness: a Flush created the directory, synced its parent, wrote the
\* file and sized it, in this order.
C20_Witness ==
    /\ last.op = "Flush"
    /\ last.status = "OK"
    /\ FlushCallsOf(last) = << Call("CreateDirIfMissing", "OK"), Call("SyncDir", "OK"),
                               Call("WritePBContainerToPath", "OK"),
                               Call("GetFileSize", "OK") >>

\* the three role bits PackRoleAndTerm gives a role
PackedRole(role) == IF role = UNKNOWN_ROLE THEN kUnknownRolePacked ELSE FromNat(role)

\* C12: for every role, UNKNOWN_ROLE included, and every term in
\* [0, 2^61 - 2], UnpackRole(PackRoleAndTerm(role, term)) = role and
\* UnpackTerm(PackRoleAndTerm(role, term)) = term; the role occupies only
\* bits 61..63 and the term only bits 0..60 of the word.
C12_PackUnpackRoundTrip ==
    (reader.pc \in {"loaded", "done", "fatal"} /\ PackableTerm(reader.src.term))
    => /\ UnpackRole(reader.val) = reader.src.role
       /\ ~UnpackTerm(reader.val).fatal
       /\ UnpackTerm(reader.val).term = reader.src.term
       /\ BitAnd(reader.val, kTermMask) = reader.src.term
       /\ BitAnd(reader.val, kRoleMask) = Shl(PackedRole(reader.src.role), kPackedTermBits)
       /\ reader.pc # "fatal"
       /\ reader.pc = "done"
          => /\ reader.result.role = reader.src.role
             /\ reader.result.term = reader.src.term

\* C12 witness: UNKNOWN_ROLE and the largest packable term went through the
\* word and came back.
C12_Witness ==
    /\ reader.pc = "done"
    /\ reader.src = RoleTerm(UNKNOWN_ROLE, kMaxPackableTerm)
    /\ reader.result.role = UNKNOWN_ROLE
    /\ reader.result.term = kMaxPackableTerm

\* the object holds a term above 2^61 - 2
TermOutOfRange(cm) == Int64Gt(current_term(cm), kMaxPackableTerm)

\* the cache of an object with an out-of-range term: the sentinel in the
\* term field, active_role in the role field, and the accessors still
\* answering from pb_; GetRoleAndTerm aborts on exactly these objects
OutOfRangeAbsorbed ==
    cmeta # << >>
    => /\ TermOutOfRange(cmeta[1])
          => /\ BitAnd(cmeta[1].role_and_term_cache, kTermMask) = kTermMask
             /\ UnpackRole(cmeta[1].role_and_term_cache) = active_role(cmeta[1])
             /\ GetRoleAndTerm(cmeta[1]).fatal
       /\ GetRoleAndTerm(cmeta[1]).fatal => TermOutOfRange(cmeta[1])

\* set_current_term(t) with t above 2^61 - 2 returns with the object alive
\* and current_term() equal to t
OutOfRangeSetReturns ==
    \A t \in Terms :
        (SetCurrentTerm(t) /\ Int64Gt(t, kMaxPackableTerm))
        => /\ cmeta' # << >>
           /\ current_term(cmeta'[1]) = t
           /\ last'.status = "OK"

\* C19: set_current_term(t) with t > 2^61 - 2, and Load of a record holding
\* such a term, complete without crashing, store the sentinel 2^61 - 1 in
\* the term field of the cache while the role field stays equal to
\* active_role, and current_term() still returns t; only a later
\* GetRoleAndTerm() on that state is fatal.
C19_OutOfRangeTermAbsorbed == [](OutOfRangeAbsorbed) /\ [][OutOfRangeSetReturns]_vars

\* C19 witness: a leader whose term was set to 2^61 - 1; its cache holds the
\* sentinel under the leader's role bits.
C19_Witness ==
    /\ last = Last("set", "OK")
    /\ cmeta # << >>
    /\ current_term(cmeta[1]) = kTermMask
    /\ active_role(cmeta[1]) = LEADER
    /\ cmeta[1].role_and_term_cache = BitOr(Shl(FromNat(LEADER), kPackedTermBits), kTermMask)
    /\ GetRoleAndTerm(cmeta[1]).fatal

\* the rowsets and bounds the Reset of the tree thread t holds was given
BuiltFor(t) == built[threads[t].tree][1]

\* rowset rs of the snapshot had no bounds to give
Unbounded(snapshot, rs) == snapshot.bounds[rs].status = "NotSupported"

\* the closed range of rs in the snapshot holds the key
HoldsKey(snapshot, rs, key) ==
    /\ snapshot.bounds[rs].status = "OK"
    /\ SliceCompare(snapshot.bounds[rs].min_key, key) <= 0
    /\ SliceCompare(key, snapshot.bounds[rs].max_key) <= 0

\* the closed range of rs in the snapshot meets the closed range [lower, upper]
MeetsRange(snapshot, rs, lower, upper) ==
    /\ snapshot.bounds[rs].status = "OK"
    /\ SliceCompare(snapshot.bounds[rs].min_key, upper) <= 0
    /\ SliceCompare(lower, snapshot.bounds[rs].max_key) <= 0

\* the vector holds each rowset of the set once and nothing else
HoldsExactly(out, expected) ==
    /\ Members(out) = expected
    /\ Len(out) = Cardinality(expected)

\* C13: for a successfully Reset RowSetTree over rowset snapshot S and any
\* key K, FindRowSetsWithKeyInRange(K) appends exactly the unbounded rowsets
\* of S and the bounded rowsets r of S with r.min_key <= K <= r.max_key in
\* lexicographic byte order, both ends closed.
C13_PointQueryExact ==
    \A t \in DOMAIN threads :
        (threads[t].pc = "answered" /\ threads[t].query[1] = "point")
        => HoldsExactly(threads[t].out,
                        {rs \in Members(BuiltFor(t).rowsets) :
                            \/ Unbounded(BuiltFor(t), rs)
                            \/ HoldsKey(BuiltFor(t), rs, threads[t].query[2])})

\* C13 witness: a point query on a tree over three bounded rowsets and the
\* memory rowset found the memory rowset and two of the three, one of them
\* because the key is the upper end of its range.
C13_Witness ==
    \E t \in DOMAIN threads :
        /\ threads[t].pc = "answered"
        /\ threads[t].query = << "point", << 1, 2 >> >>
        /\ BuiltFor(t).rowsets = << "r1", "r2", "r3", "mrs" >>
        /\ BuiltFor(t).bounds["r1"] = Bounds(<< 1 >>, << 1, 2 >>)
        /\ BuiltFor(t).bounds["r3"] = Bounds(<< 2 >>, << 2, 1 >>)
        /\ Members(threads[t].out) = {"mrs", "r1", "r2"}

\* C14: for a successfully Reset RowSetTree over rowset snapshot S and any
\* bounds L <= U, FindRowSetsIntersectingInterval(L, U) appends exactly the
\* unbounded rowsets of S and the bounded rowsets r of S whose closed range
\* [r.min_key, r.max_key] meets the closed range [L, U]; a rowset touching
\* the query only at an endpoint is included.
C14_RangeQueryExact ==
    \A t \in DOMAIN threads :
        (threads[t].pc = "answered" /\ threads[t].query[1] = "range")
        => HoldsExactly(threads[t].out,
                        {rs \in Members(BuiltFor(t).rowsets) :
                            \/ Unbounded(BuiltFor(t), rs)
                            \/ MeetsRange(BuiltFor(t), rs, threads[t].query[2],
                                          threads[t].query[3])})

\* C14 witness: a range query found the memory rowset, a rowset that ends
\* where the query starts and a rowset that starts where the query ends, and
\* left out the rowset wholly below the query.
C14_Witness ==
    \E t \in DOMAIN threads :
        /\ threads[t].pc = "answered"
        /\ threads[t].query = << "range", << 1, 2 >>, << 2 >> >>
        /\ BuiltFor(t).rowsets = << "r1", "r2", "r3", "mrs" >>
        /\ BuiltFor(t).bounds["r1"] = Bounds(<< 1 >>, << 1, 2 >>)
        /\ BuiltFor(t).bounds["r2"] = Bounds(<< 1 >>, << 1, 1 >>)
        /\ BuiltFor(t).bounds["r3"] = Bounds(<< 2 >>, << 2, 1 >>)
        /\ Members(threads[t].out) = {"mrs", "r1", "r3"}

\* the tablet's rowset set after the first k swaps that took the lock
RECURSIVE AfterSwaps(_)
AfterSwaps(k) ==
    IF k = 0 THEN Members(TabletRowSets)
    ELSE (AfterSwaps(k - 1) \cup Members(swapped[k].new_rowsets))
         \ Members(swapped[k].old_rowsets)

\* the threads that hold a copy of the tablet's tree reference
HoldingCopy == {t \in DOMAIN threads :
                   threads[t].pc \in {"read_copied", "read_snapped", "ready", "answered"}}

\* the tree was Reset and indexes every rowset it was given
WholeTree(tree) ==
    /\ tree.initted_
    /\ Members(tree.all_rowsets_)
          = Members(RowSetsOf(tree.entries_)) \cup Members(tree.unbounded_rowsets_)

\* C15: under any interleaving of readers and swappers, the tree reference a
\* reader copies is a fully initialized RowSetTree whose rowset set is the
\* tablet's rowset set immediately before or after some complete swap; never
\* an un-Reset tree or one with part of a swap's removals and additions.
C15_ReaderCopiesWholeTree ==
    \A t \in HoldingCopy :
        /\ threads[t].tree \in DOMAIN trees
        /\ WholeTree(trees[threads[t].tree])
        /\ \E k \in 0 .. Len(swapped) :
              /\ k > 0 => swapped[k].after # 0
              /\ Members(trees[threads[t].tree].all_rowsets_) = AfterSwaps(k)

\* C15 witness: a reader copied the tree between two swaps and still holds
\* it after the second; a swapper was waiting while it copied.
C15_Witness ==
    \E t \in HoldingCopy :
        /\ threads[t].pc = "ready"
        /\ threads[t].tree = 2
        /\ rowsets_ = 3
        /\ Len(swapped) = 2
        /\ Members(trees[2].all_rowsets_) = AfterSwaps(1)
        /\ AfterSwaps(1) # AfterSwaps(2)

\* C16: no swap installs a new tree between a reader's copy of the tree
\* reference and its capture of the MVCC snapshot, and the snapshot a swapper
\* returns in snap_under_lock is taken while the tree it just installed is
\* still the tablet's current tree, with no other swap and no shared-mode
\* holder in between.
C16_TreeAndSnapshotAtomic ==
    /\ \A t \in HoldingCopy :
          /\ threads[t].pc = "read_copied" => rowsets_ = threads[t].tree
          /\ threads[t].snap # << >> => threads[t].snap[1].current = threads[t].tree
    /\ \A t \in DOMAIN threads :
          threads[t].pc \in {"swap_installed", "swap_snapped"}
          => /\ rowsets_ = threads[t].tree
             /\ component_lock_.readers = {}
             /\ component_lock_.writer = t
    /\ \A i \in DOMAIN swapped :
          swapped[i].snap # << >>
          => /\ swapped[i].snap[1].current = swapped[i].after
             /\ swapped[i].snap[1].holders = {}

\* C16 witness: a reader captured tree and snapshot after a commit and
\* between two swaps, each of which returned its snapshot.
C16_Witness ==
    \E t \in HoldingCopy :
        /\ threads[t].pc = "ready"
        /\ threads[t].tree = 2
        /\ threads[t].snap = << [commits |-> 1, current |-> 2, holders |-> {t}] >>
        /\ Len(swapped) = 2
        /\ swapped[1].snap # << >>
        /\ swapped[2].snap # << >>
        /\ swapped[2].snap[1].current = 3

\* C17: after AtomicSwapRowSets(old_rowsets, new_rowsets) the tablet's tree
\* holds exactly the rowsets that were current before the swap or are in
\* new_rowsets, minus those in old_rowsets, so a rowset in neither list is
\* still there; after any sequence of swaps the current set is the result of
\* applying the swaps in lock-acquisition order.
C17_SwapsApplyInLockOrder ==
    rowsets_ # 0
    => /\ \A i \in DOMAIN swapped :
             swapped[i].after # 0
             => Members(trees[swapped[i].after].all_rowsets_)
                   = (Members(trees[swapped[i].before].all_rowsets_)
                         \cup Members(swapped[i].new_rowsets))
                     \ Members(swapped[i].old_rowsets)
       /\ component_lock_.writer = ""
          => /\ \A i \in DOMAIN swapped : swapped[i].after # 0
             /\ Members(trees[rowsets_].all_rowsets_) = AfterSwaps(Len(swapped))

\* C17 witness: the flush and the compaction both completed, by different
\* threads: the tablet holds r3 and r4 and none of r1, r2 and the memory
\* rowset.
C17_Witness ==
    /\ Len(swapped) = 2
    /\ swapped[1].thread # swapped[2].thread
    /\ swapped[1].old_rowsets # swapped[2].old_rowsets
    /\ component_lock_.writer = ""
    /\ rowsets_ = 3
    /\ Members(trees[rowsets_].all_rowsets_) = {"r3", "r4"}

\* an answered query holds what the bounds copied at Reset time give
AnswersFromResetTime(t) ==
    LET q == threads[t].query
    IN  HoldsExactly(threads[t].out,
                     {rs \in Members(BuiltFor(t).rowsets) :
                         \/ Unbounded(BuiltFor(t), rs)
                         \/ IF q[1] = "point" THEN HoldsKey(BuiltFor(t), rs, q[2])
                            ELSE MeetsRange(BuiltFor(t), rs, q[2], q[3])})

\* no step changes a tree that was Reset (the trees go when the process does)
ResetTreesStay ==
    trees' # << >>
    => \A id \in DOMAIN trees : trees[id].initted_ => trees'[id] = trees[id]

\* C18: a successfully Reset RowSetTree is immutable: its point and range
\* queries return the same rowsets whatever queries, tablet swaps or changes
\* to a rowset's own bounds happen in between, the bounds used being copies
\* taken at Reset time; a reader holding a tree captured before a swap keeps
\* getting the pre-swap answers.
C18_ResetTreeImmutable ==
    /\ [](\A t \in DOMAIN threads : threads[t].pc = "answered" => AnswersFromResetTime(t))
    /\ [][ResetTreesStay]_vars

\* C18 witness: a reader that captured the first tree is answered r1 for a
\* key r1 held at Reset time, after r1's own bounds moved away from the key
\* and two swaps took r1 out of the tablet.
C18_Witness ==
    \E t \in HoldingCopy :
        /\ threads[t].pc = "answered"
        /\ threads[t].tree = 1
        /\ threads[t].query = << "point", << 1 >> >>
        /\ "r1" \in Members(threads[t].out)
        /\ rowset_bounds["r1"] = DriftedBounds
        /\ rowsets_ = 3
        /\ "r1" \notin Members(trees[rowsets_].all_rowsets_)

\* flush_count_for_tests_ when the Flush recorded in l ended
FlushCountOf(l) == l.arg[1].count

\* a Flush of the live object: if the fault hook fired, nothing was counted,
\* no filesystem call was made and the filesystem is as it was; if not, the
\* flush was counted once, whatever it returned
FlushCountsOnce ==
    (last'.op = "Flush" /\ cmeta # << >>)
    => IF last'.status = "Crashed"
       THEN /\ FlushCountOf(last') = cmeta[1].flush_count_for_tests
            /\ FlushCallsOf(last') = << >>
            /\ fs' = fs
       ELSE /\ cmeta' # << >>
            /\ cmeta'[1].flush_count_for_tests = cmeta[1].flush_count_for_tests + 1
            /\ FlushCountOf(last') = cmeta'[1].flush_count_for_tests

\* no other operation on the object changes the counter
OthersKeepFlushCount ==
    (cmeta # << >> /\ cmeta' # << >> /\ last'.op \in {"set", "DeleteOnDiskData"})
    => cmeta'[1].flush_count_for_tests = cmeta[1].flush_count_for_tests

\* C21: the crash-injection hook is evaluated before any other effect of
\* Flush: when it fires, flush_count_for_tests has not been incremented, no
\* directory has been created and the file is untouched; when it does not
\* fire, flush_count_for_tests increases by exactly one per Flush call, also
\* for calls that then fail config verification or the write, and it never
\* decreases.
C21_FaultHookBeforeCount == [][FlushCountsOnce /\ OthersKeepFlushCount]_vars

\* C21 witness: the hook fired in the second Flush of an object: the first
\* was counted, the second was not, and the file of the first is in place.
C21_Witness ==
    /\ last.op = "Flush"
    /\ last.status = "Crashed"
    /\ FlushCountOf(last) = 1
    /\ cmeta = << >>
    /\ fs.file_exists

\* the step is a set_committed_config call on an object with a pending config
CommitsUnderPending ==
    /\ last' = [Last("set", "OK") EXCEPT !.arg = << "set_committed_config" >>]
    /\ cmeta # << >>
    /\ has_pending_config(cmeta[1])

\* C22: set_committed_config(cfg) called while a pending config exists
\* replaces only the committed config: ActiveConfig(), active_role(),
\* leader_uuid(), the pending config, current_term and the packed cache are
\* unchanged by the call.
C22_CommitUnderPendingFrame ==
    [][CommitsUnderPending
       => /\ cmeta' # << >>
          /\ ActiveConfig(cmeta'[1]) = ActiveConfig(cmeta[1])
          /\ active_role(cmeta'[1]) = active_role(cmeta[1])
          /\ leader_uuid(cmeta'[1]) = leader_uuid(cmeta[1])
          /\ has_pending_config(cmeta'[1])
          /\ PendingConfig(cmeta'[1]) = PendingConfig(cmeta[1])
          /\ cmeta'[1].pb.has_current_term = cmeta[1].pb.has_current_term
          /\ current_term(cmeta'[1]) = current_term(cmeta[1])
          /\ cmeta'[1].role_and_term_cache = cmeta[1].role_and_term_cache
          /\ \E c \in MemConfigs :
                cmeta'[1] = [cmeta[1] EXCEPT !.pb.has_committed_config = TRUE,
                                             !.pb.committed_config = c]]_vars

\* C22 witness: a leader under a pending config in which it votes was given
\* a committed config it is absent from, and is still the leader.
C22_Witness ==
    /\ last = [Last("set", "OK") EXCEPT !.arg = << "set_committed_config" >>]
    /\ cmeta # << >>
    /\ has_pending_config(cmeta[1])
    /\ PendingConfig(cmeta[1]) = ConfigVoter
    /\ CommittedConfig(cmeta[1]) = ConfigAbsent
    /\ leader_uuid(cmeta[1]) = kPeerUuid
    /\ active_role(cmeta[1]) = LEADER
    /\ UnpackRole(cmeta[1].role_and_term_cache) = LEADER

\* the intervals an interval tree holds, node by node
RECURSIVE TreeIntervals(_)
TreeIntervals(node) ==
    IF node = << >> THEN << >>
    ELSE node[1].overlapping_by_asc_left \o TreeIntervals(node[1].left)
                                         \o TreeIntervals(node[1].right)

\* the positions of s that hold an entry of rowset rs
EntriesOf(s, rs) == {j \in DOMAIN s : s[j].rowset = rs}

\* the tree holds the rowsets of input `given` split by what GetBounds said
PartitionsInput(tree, given) ==
    /\ tree.all_rowsets_ = given.rowsets
    /\ Len(tree.entries_) + Len(tree.unbounded_rowsets_) = Len(given.rowsets)
    /\ Len(TreeIntervals(tree.tree_)) = Len(tree.entries_)
    /\ Members(TreeIntervals(tree.tree_)) = Members(tree.entries_)
    /\ \A rs \in Members(given.rowsets) :
          IF given.bounds[rs].status = "NotSupported"
          THEN /\ rs \in Members(tree.unbounded_rowsets_)
               /\ EntriesOf(tree.entries_, rs) = {}
               /\ EntriesOf(TreeIntervals(tree.tree_), rs) = {}
          ELSE /\ rs \notin Members(tree.unbounded_rowsets_)
               /\ Cardinality(EntriesOf(tree.entries_, rs)) = 1
               /\ Cardinality(EntriesOf(TreeIntervals(tree.tree_), rs)) = 1
               /\ \A j \in EntriesOf(tree.entries_, rs) :
                     tree.entries_[j] = RowSetWithBounds(rs, given.bounds[rs].min_key,
                                                         given.bounds[rs].max_key)

\* C23: after a successful Reset(rowsets), each input rowset whose GetBounds
\* returned NotSupported is in unbounded_rowsets and in no tree entry, each
\* input rowset whose GetBounds succeeded has exactly one tree entry carrying
\* the bounds it reported, and all_rowsets equals the input list: bounded and
\* unbounded together cover every input rowset with no overlap.
C23_ResetPartitionsInput ==
    \A id \in DOMAIN trees :
        trees[id].initted_ => PartitionsInput(trees[id], built[id][1])

\* C23 witness: a tree Reset over three bounded rowsets and the memory
\* rowset holds three entries, in a tree of more than one node, and the
\* memory rowset apart.
C23_Witness ==
    /\ trees # << >>
    /\ trees[1].initted_
    /\ trees[1].all_rowsets_ = << "r1", "r2", "r3", "mrs" >>
    /\ Len(trees[1].entries_) = 3
    /\ trees[1].unbounded_rowsets_ = << "mrs" >>
    /\ trees[1].tree_[1].left # << >>
    /\ trees[1].tree_[1].right # << >>

\* the positions of rowsets whose GetBounds fails with an error other than
\* NotSupported
Failing(rowsets, bounds) ==
    {i \in DOMAIN rowsets : bounds[rowsets[i]].status \notin {"OK", "NotSupported"}}

FirstFailing(rowsets, bounds) ==
    CHOOSE i \in Failing(rowsets, bounds) : \A j \in Failing(rowsets, bounds) : i <= j

\* what a Reset of each tree over each input would do now
ResetOutcomes ==
    \A id \in DOMAIN trees, input \in TreeInputs :
        LET r == Reset(trees[id], input, rowset_bounds)
        IN  IF trees[id].initted_ THEN r.status = "Fatal"
            ELSE IF Failing(input, rowset_bounds) # {}
            THEN /\ r.status
                      = rowset_bounds[input[FirstFailing(input, rowset_bounds)]].status
                 /\ r.tree = trees[id]
                 /\ ~r.tree.initted_
            ELSE /\ r.status = "OK"
                 /\ r.tree.initted_

\* a tree that no Reset initialised is as constructed, whatever Resets failed
FailedResetsLeaveNoTrace ==
    \A id \in DOMAIN trees : ~trees[id].initted_ => trees[id] = NewRowSetTree

\* the steps of the Reset calls of the owners of a tree
ResetLifecycle ==
    \A t \in DOMAIN threads :
        LET id == threads[t].tree
        IN  /\ (threads[t].pc \in {"fresh", "failed"} /\ threads'[t].pc = "failed")
                => /\ Failing(threads[t].rowsets, rowset_bounds) # {}
                   /\ trees' = trees
                   /\ built' = built
            /\ (threads[t].pc \in {"fresh", "failed"} /\ threads'[t].pc = "ready")
                => /\ Failing(threads[t].rowsets, rowset_bounds) = {}
                   /\ trees'[id].initted_
            /\ (threads[t].pc \in {"fresh", "failed"} /\ trees' # trees)
                => threads'[t].pc = "ready"
            /\ (id \in DOMAIN trees /\ trees[id].initted_ /\ trees' # trees)
                => /\ trees' = << >>
                   /\ threads'[t].pc = "aborted"

\* C24: if GetBounds of any input rowset returns an error other than
\* NotSupported, Reset returns that error and leaves the tree uninitialized
\* with entries, unbounded_rowsets, all_rowsets and the interval tree
\* unchanged, however many earlier rowsets were already processed, and Reset
\* may be called again on that instance; once a Reset has succeeded, a further
\* Reset on that instance aborts, so each instance has at most one successful
\* Reset.
C24_ResetLifecycle ==
    /\ [](ResetOutcomes /\ FailedResetsLeaveNoTrace)
    /\ [][ResetLifecycle]_vars

\* C24 witness: a Reset over r1, "bad" and the memory rowset that failed on
\* "bad" after r1 was processed was called again when the bounds of "bad"
\* could be read, and succeeded.
C24_Witness ==
    /\ trees # << >>
    /\ trees[1].initted_
    /\ trees[1].all_rowsets_ = << "r1", "bad", "mrs" >>
    /\ RowSetsOf(trees[1].entries_) = << "r1", "bad" >>
    /\ rowset_bounds["bad"] = ReadableBounds
    /\ \E t \in DOMAIN threads : threads[t].pc = "ready"

\* the step is a MergeCommittedConsensusStatePB(other) whose term is not
\* greater than the object's: term and vote stay, the rest is merged
MergeOfOldTermKeepsTermAndVote ==
    (ObjectStep /\ last'.op = "MergeCommittedConsensusStatePB"
                /\ ~Int64Gt(last'.arg[1].current_term, current_term(cmeta[1])))
    => /\ cmeta'[1].pb.has_current_term = cmeta[1].pb.has_current_term
       /\ cmeta'[1].pb.current_term = cmeta[1].pb.current_term
       /\ current_term(cmeta'[1]) = current_term(cmeta[1])
       /\ has_voted_for(cmeta'[1]) = has_voted_for(cmeta[1])
       /\ cmeta'[1].pb.voted_for = cmeta[1].pb.voted_for
       /\ leader_uuid(cmeta'[1]) = ""
       /\ CommittedConfig(cmeta'[1]) = last'.arg[1].committed_config
       /\ ~has_pending_config(cmeta'[1])

\* the term after a merge is the greater of the object's and the merged one
MergeTakesGreaterTerm ==
    (ObjectStep /\ last'.op = "MergeCommittedConsensusStatePB")
    => current_term(cmeta'[1])
          = IF Int64Gt(last'.arg[1].current_term, current_term(cmeta[1]))
            THEN last'.arg[1].current_term
            ELSE current_term(cmeta[1])

\* C25: MergeCommittedConsensusStatePB(other) with other.current_term less
\* than or equal to the local current_term leaves current_term and voted_for
\* (presence and value) unchanged, while still clearing the leader, replacing
\* the committed config and clearing any pending config; merging never
\* lowers the term.
C25_MergeOfOldTermKeepsVote ==
    [][MergeOfOldTermKeepsTermAndVote /\ MergeTakesGreaterTerm]_vars

\* C25 witness: a merge of a smaller term ran on an object that voted in a
\* later term; the vote and the term are still there, the committed config
\* is the merged one and neither leader nor pending config is left.
C25_Witness ==
    /\ cmeta # << >>
    /\ last.op = "MergeCommittedConsensusStatePB"
    /\ Int64Gt(current_term(cmeta[1]), last.arg[1].current_term)
    /\ has_voted_for(cmeta[1])
    /\ CommittedConfig(cmeta[1]) = ConfigAbsent
    /\ last.arg[1].committed_config = ConfigAbsent
    /\ leader_uuid(cmeta[1]) = ""
    /\ ~has_pending_config(cmeta[1])
    /\ active_role(cmeta[1]) = NON_PARTICIPANT

\* the object after each mutator call of MergeCommittedConsensusStatePB(cstate)
\* on the object cm, the object before first
MergeStages(cm, cstate) ==
    LET adopts == Int64Gt(cstate.current_term, current_term(cm))
        s1 == IF adopts THEN set_current_term(cm, cstate.current_term) ELSE cm
        s2 == IF adopts THEN clear_voted_for(s1) ELSE s1
        s3 == set_leader_uuid(s2, "")
        s4 == set_committed_config(s3, cstate.committed_config)
        s5 == clear_pending_config(s4)
    IN  << cm, s1, s2, s3, s4, s5 >>

\* the words the cache holds over the stages i of the merge m
WordsOfMerge(m, stages) ==
    {MergeStages(m.before, m.cstate)[i].role_and_term_cache : i \in stages}

\* the step is the atomic read of GetRoleAndTerm, made while a merge is in
\* progress
ReadsDuringMerge ==
    /\ MergeInProgress # << >>
    /\ reader.pc # "loaded"
    /\ reader'.pc = "loaded"

\* C26 as stated: a GetRoleAndTerm() concurrent with one
\* MergeCommittedConsensusStatePB call reads the (role, term) word from
\* before the merge or the one from after it, never one in between.
C26_MergeAtomicForReaders ==
    [][ReadsDuringMerge => reader'.val \in WordsOfMerge(MergeInProgress[1], {1, 6})]_vars

\* C26 amended: a GetRoleAndTerm() concurrent with one
\* MergeCommittedConsensusStatePB call reads the word packed from
\* (active_role, current_term) as they were before the merge or after one of
\* the mutator calls the merge makes; the word from between two of those
\* calls, such as the role from before the merge with the term it adopted,
\* can be read.
C26_ReaderSeesMergeCallByCall ==
    [][ReadsDuringMerge => reader'.val \in WordsOfMerge(MergeInProgress[1], 1 .. 6)]_vars

\* C26 witness: GetRoleAndTerm read the word of (LEADER, 1) while a merge
\* that takes the object from (LEADER, 0) to (FOLLOWER, 1) was between
\* set_current_term and set_leader_uuid.
C26_Witness ==
    /\ reader.pc = "loaded"
    /\ reader.val = PackRoleAndTerm(LEADER, FromNat(1))
    /\ reader.src = stored
    /\ cmeta # << >>
    /\ cmeta[1].role_and_term_cache = reader.val
    /\ Len(merging) \in {3, 4}
    /\ MergeInProgress # << >>
    /\ MergeInProgress[1].before.role_and_term_cache = PackRoleAndTerm(LEADER, ZeroWord)
    /\ MergeCommittedConsensusStatePB(MergeInProgress[1].before, MergeInProgress[1].cstate)
          .role_and_term_cache = PackRoleAndTerm(FOLLOWER, FromNat(1))

\* a successful Flush leaves in the file the bytes of pb_, which are the
\* term, the vote and the committed config and nothing else
FlushWritesMessageOnly ==
    (cmeta # << >> /\ last'.op = "Flush" /\ last'.status = "OK")
    => /\ fs'.file_exists
       /\ fs'.data = Serialize(cmeta[1].pb)
       /\ \A i \in DOMAIN fs'.data :
             fs'.data[i].field \in {"committed_config", "current_term", "voted_for"}
       /\ Parse(fs'.data) = cmeta[1].pb

\* the object a successful Load returns holds what the file holds and no
\* pending config and no leader; role and cache are derived from that
LoadedFromFileAlone ==
    (last'.op = "Load" /\ last'.status = "OK")
    => /\ cmeta' # << >>
       /\ cmeta'[1].pb = Parse(fs.data)
       /\ ~has_pending_config(cmeta'[1])
       /\ leader_uuid(cmeta'[1]) = ""
       /\ ActiveConfig(cmeta'[1]) = Parse(fs.data).committed_config
       /\ active_role(cmeta'[1])
             = GetConsensusRole(kPeerUuid, "", Parse(fs.data).committed_config)
       /\ cmeta'[1].role_and_term_cache
             = PackRoleAndTerm(active_role(cmeta'[1]), Parse(fs.data).current_term)

\* a Load right after a successful Flush returns the flushed term, vote and
\* committed config
LoadAfterFlushKeepsMessage ==
    (last.op = "Flush" /\ last.status = "OK" /\ cmeta # << >>
        /\ last'.op = "Load" /\ last'.status = "OK")
    => cmeta'[1].pb = cmeta[1].pb

\* C27: Flush persists only current_term, voted_for and committed_config, so
\* whatever pending config and leader_uuid the object held when it was
\* flushed, a subsequent Load yields has_pending_config() false, an empty
\* leader_uuid(), ActiveConfig() equal to the loaded committed config, and
\* active_role and the packed cache derived from that state.
C27_VolatileStateNeverOnDisk ==
    [][FlushWritesMessageOnly /\ LoadedFromFileAlone /\ LoadAfterFlushKeepsMessage]_vars

\* C27 witness: an object that was LEADER under a pending config in which
\* it votes, over a committed config it is not in, was flushed with its
\* vote and loaded: the loaded object has the vote and the term, no pending
\* config and no leader, and is NON_PARTICIPANT.
C27_Witness ==
    /\ last.op = "Load"
    /\ last.status = "OK"
    /\ last.arg = << [leader_uuid |-> kPeerUuid, has_pending_config |-> TRUE,
                      pending_config |-> ConfigVoter] >>
    /\ cmeta # << >>
    /\ ~has_pending_config(cmeta[1])
    /\ leader_uuid(cmeta[1]) = ""
    /\ has_voted_for(cmeta[1])
    /\ current_term(cmeta[1]) = FromNat(MaxTerm)
    /\ ActiveConfig(cmeta[1]) = ConfigAbsent
    /\ active_role(cmeta[1]) = NON_PARTICIPANT
    /\ UnpackRole(cmeta[1].role_and_term_cache) = NON_PARTICIPANT

====
